---- MODULE Spec2Model ----
(***************************************************************************)
(* A model of the two game simulation engines of the football simulator:   *)
(* the Drive Engine (simulateDrive / simulateGame, drive by drive) and the *)
(* Projection Engine (calculateTeamDetail / simulateOtPoints /             *)
(* simulateGame, one Gaussian projection per team plus overtime and        *)
(* tiebreak), together with the seeded random generator both share.        *)
(*                                                                         *)
(* Representation of JavaScript numbers.                                   *)
(*  - NaN, Infinity and undefined are the three sentinels below; every     *)
(*    comparison goes through JsLt/JsGt/JsEq, which are false on NaN and   *)
(*    undefined as in JavaScript.                                          *)
(*  - A value returned by the random generator is the numerator of a       *)
(*    fraction over DENOMINATOR = 2147483646 (the code returns             *)
(*    (state - 1) / 2147483646).  A probability p is represented by the    *)
(*    least numerator T with  value/DENOMINATOR < p  <=>  value < T.       *)
(*  - Points per drive and drivesPerTeam are in tenths (2.5 is 25).        *)
(*  - Projection Engine statistics are in thousandths (24.6 is 24600);     *)
(*    scores are whole points.                                             *)
(***************************************************************************)
EXTENDS Integers, Sequences, FiniteSets, TLC

VARIABLES
    engine,              \* "drive" | "projection": which simulateGame is called
    home, away, config,  \* the arguments of the call
    callNo,              \* 1 for the first call, 2 for its repetition
    firstResult,         \* what call 1 ended with (kept for the repetition)
    pc,                  \* position inside simulateGame
    turn,                \* Drive Engine: whose drive comes next in the round
    rng,                 \* the generator created by createRandomGenerator
    draws,               \* number of values drawn from rng in this call
    zeros,               \* how many of them were an exact 0 of Math.random
    i,                   \* Drive Engine: the regulation loop counter
    homeDrives, awayDrives, summary,
    homeScore, awayScore,
    roundsPlayed,
    homeDetail, awayDetail,
    overtimePointsHome, overtimePointsAway,
    tiebreakApplied,
    result,              \* the returned SimulationResult
    error,               \* the message of the thrown Error
    homeInputs, awayInputs, configInputs,  \* the form: the texts of its fields
    formResult,          \* the form: its result state (useState, null at first)
    formError,           \* the form: its error state
    usedConfig           \* the Drive form: the configuration of formResult

\* The state of the form component (NFLSimulator) of the engine.
FormState == << homeInputs, awayInputs, configInputs, formResult, formError,
                usedConfig >>

vars == << engine, home, away, config, callNo, firstResult, pc, turn, rng,
           draws, zeros, i, homeDrives, awayDrives, summary, homeScore, awayScore,
           roundsPlayed, homeDetail, awayDetail, overtimePointsHome,
           overtimePointsAway, tiebreakApplied, result, error, FormState >>

----------------------------------------------------------------------------
(* JavaScript numbers *)

NaN == -1000000000
Infinity == 1000000000
Undefined == -1000000001

\* A finite double so large (1e300) that adding a score, a variation or a
\* penalty to it, or taking one from it, gives the same double back.
Huge == 900000000

IsNumber(x) == x # NaN /\ x # Undefined
IsFinite(x) == IsNumber(x) /\ x # Infinity
JsLt(a, b) == IsNumber(a) /\ IsNumber(b) /\ a < b
JsGt(a, b) == IsNumber(a) /\ IsNumber(b) /\ a > b
JsGe(a, b) == IsNumber(a) /\ IsNumber(b) /\ a >= b
JsEq(a, b) == IsNumber(a) /\ IsNumber(b) /\ a = b
JsAdd(a, b) ==
    IF a = NaN \/ b = NaN THEN NaN
    ELSE IF a = Huge \/ b = Huge THEN Huge
    ELSE a + b
JsSub(a, b) ==
    IF a = NaN \/ b = NaN THEN NaN
    ELSE IF a = Huge /\ b = Huge THEN 0
    ELSE IF a = Huge THEN Huge
    ELSE a - b
Nullish(x, default) == IF x = Undefined THEN default ELSE x

\* The remainder operator of JavaScript: the result has the dividend's sign.
JsRem(a, m) == IF a >= 0 THEN a % m ELSE -((-a) % m)

\* Math.max and Math.min: NaN if either argument is NaN.
MathMax(a, b) == IF a = NaN \/ b = NaN THEN NaN ELSE IF a >= b THEN a ELSE b
MathMin(a, b) == IF a = NaN \/ b = NaN THEN NaN ELSE IF a <= b THEN a ELSE b

clamp(value, min, max) == MathMin(MathMax(value, min), max)

----------------------------------------------------------------------------
(* The seeded generator *)

MODULUS == 2147483647
DENOMINATOR == 2147483646
MULTIPLIER == 16807

\* A seed is a record: kind "number" with the value num/den (den > 0), or
\* kind "NaN", "Infinity", "-Infinity", "undefined".
Num(n) == [kind |-> "number", num |-> n, den |-> 1]
Frac(n, d) == [kind |-> "number", num |-> n, den |-> d]
Special(k) == [kind |-> k, num |-> 0, den |-> 1]

\* state = Math.floor(seed) % 2147483647; if (state <= 0) state += 2147483646.
\* Math.floor(+-Infinity) % m is NaN, and NaN <= 0 is false.
SeedState(seed) ==
    IF seed.kind \in {"Infinity", "-Infinity"} THEN NaN
    ELSE LET state == JsRem(seed.num \div seed.den, MODULUS)
         IN  IF state <= 0 THEN state + 2147483646 ELSE state

\* createRandomGenerator(seed): Math.random unless seed is a number that is
\* not NaN.
createRandomGenerator(seed) ==
    IF seed.kind \in {"undefined", "NaN"}
    THEN [kind |-> "Math.random", state |-> 0]
    ELSE [kind |-> "seeded", state |-> SeedState(seed)]

\* state = (state * 16807) % 2147483647, evaluated without leaving 32 bits
\* (16807 * 127773 + 2836 = 2147483647); the product is below 2^53 in the
\* code, so the double arithmetic there is exact.
NextState(state) ==
    IF state = NaN THEN NaN
    ELSE LET t == MULTIPLIER * (state % 127773) - 2836 * (state \div 127773)
         IN  IF t < 0 THEN t + MODULUS ELSE t

\* A generator whose state outlives the call: a later call with the same
\* seed goes on in the stream instead of starting it again.
NewGenerator_Continued(seed) ==
    IF callNo = 1 THEN createRandomGenerator(seed)
    ELSE [createRandomGenerator(seed) EXCEPT !.state = NextState(@)]

\* const rng = createRandomGenerator(config.seed): a generator of the call's
\* own, started from the seed.
NewGenerator(seed) == createRandomGenerator(seed)

\* The values Math.random may return, as numerators over DENOMINATOR:
\* 0, about 0.5 and about 0.95.
RandomValues == {0, 1073741823, 2040109464}

\* What the generator's next call may return: any value for Math.random, the
\* one value of the recurrence for a seeded generator.
Picks(g) == IF g.kind = "Math.random" THEN RandomValues ELSE {0}

\* One call rng(): the value returned and the generator afterwards.
Draw(g, pick) ==
    IF g.kind = "Math.random"
    THEN [value |-> pick, rng |-> g]
    ELSE LET s == NextState(g.state)
         IN  [value |-> IF s = NaN THEN NaN ELSE s - 1,
              rng |-> [g EXCEPT !.state = s]]

\* The least numerator T with value/DENOMINATOR < n/d <=> value < T, for
\* 0 < n/d < 1 (no intermediate value leaves 32 bits).
Threshold(n, d) ==
    LET q == DENOMINATOR \div d
        r == DENOMINATOR % d
        fl == n * q + (n * r) \div d
    IN  IF (n * r) % d = 0 THEN fl ELSE fl + 1

----------------------------------------------------------------------------
(* Drive Engine: simulateDrive *)

MIN_POINTS_PER_DRIVE == 2
MAX_POINTS_PER_DRIVE == 40
DEFAULT_DRIVES_PER_TEAM == 12

\* A check that lets 0 through (>= for >).
validatePointsPerDrive_AcceptsZero(value) == JsGe(value, 0)

\* validatePointsPerDrive(label, value): TRUE when the value is accepted,
\* that is when !(value > 0) is false.
validatePointsPerDrive(value) == JsGt(value, 0)

\* clamp(0.4 * offense / defense, 0, 0.85) for offense, defense in tenths.
scoringProbability(offense, defense) ==
    IF 100 * (4 * offense) >= 85 * (10 * defense)
    THEN Threshold(17, 20)
    ELSE Threshold(4 * offense, 10 * defense)

NoOutcome == [result |-> "NONE", points |-> 0]

\* A field goal that is given the points of a touchdown.
scoringOutcome_SevenForAll(value) ==
    IF JsLt(value, Threshold(3, 4))
    THEN [result |-> "TD", points |-> 7]
    ELSE [result |-> "FG", points |-> 7]

\* rng() < 0.75 ? { result: TD, points: 7 } : { result: FG, points: 3 }
scoringOutcome(value) ==
    IF JsLt(value, Threshold(3, 4))
    THEN [result |-> "TD", points |-> 7]
    ELSE [result |-> "FG", points |-> 3]

\* A simulateDrive that draws both values before it looks at the first.
simulateDrive_DrawsBoth(offensePtsDrive, defensePtsDrive, g, p1, p2) ==
    IF ~validatePointsPerDrive(offensePtsDrive)
    THEN [threw |-> TRUE, message |-> "offensePtsDrive must be greater than 0",
          outcome |-> NoOutcome, rng |-> g, drawn |-> 0]
    ELSE IF ~validatePointsPerDrive(defensePtsDrive)
    THEN [threw |-> TRUE, message |-> "defensePtsDrive must be greater than 0",
          outcome |-> NoOutcome, rng |-> g, drawn |-> 0]
    ELSE
      LET offense == clamp(offensePtsDrive, MIN_POINTS_PER_DRIVE, MAX_POINTS_PER_DRIVE)
          defense == clamp(defensePtsDrive, MIN_POINTS_PER_DRIVE, MAX_POINTS_PER_DRIVE)
          d1 == Draw(g, p1)
          d2 == Draw(d1.rng, p2)
      IN  [threw |-> FALSE, message |-> "",
           outcome |-> IF JsLt(d1.value, scoringProbability(offense, defense))
                       THEN scoringOutcome(d2.value)
                       ELSE [result |-> "NONE", points |-> 0],
           rng |-> d2.rng, drawn |-> 2]

\* A simulateDrive that clamps the defense only.
simulateDrive_OffenseUnclamped(offensePtsDrive, defensePtsDrive, g, p1, p2) ==
    IF ~validatePointsPerDrive(offensePtsDrive)
    THEN [threw |-> TRUE, message |-> "offensePtsDrive must be greater than 0",
          outcome |-> NoOutcome, rng |-> g, drawn |-> 0]
    ELSE IF ~validatePointsPerDrive(defensePtsDrive)
    THEN [threw |-> TRUE, message |-> "defensePtsDrive must be greater than 0",
          outcome |-> NoOutcome, rng |-> g, drawn |-> 0]
    ELSE
      LET defense == clamp(defensePtsDrive, MIN_POINTS_PER_DRIVE, MAX_POINTS_PER_DRIVE)
          d1 == Draw(g, p1)
          d2 == Draw(d1.rng, p2)
      IN  IF JsLt(d1.value, scoringProbability(offensePtsDrive, defense))
          THEN [threw |-> FALSE, message |-> "",
                outcome |-> scoringOutcome(d2.value),
                rng |-> d2.rng, drawn |-> 2]
          ELSE [threw |-> FALSE, message |-> "",
                outcome |-> [result |-> "NONE", points |-> 0],
                rng |-> d1.rng, drawn |-> 1]

\* simulateDrive(offensePtsDrive, defensePtsDrive, rng); p1, p2 are what
\* Math.random returns when rng is Math.random.
simulateDrive(offensePtsDrive, defensePtsDrive, g, p1, p2) ==
    IF ~validatePointsPerDrive(offensePtsDrive)
    THEN [threw |-> TRUE, message |-> "offensePtsDrive must be greater than 0",
          outcome |-> NoOutcome, rng |-> g, drawn |-> 0]
    ELSE IF ~validatePointsPerDrive(defensePtsDrive)
    THEN [threw |-> TRUE, message |-> "defensePtsDrive must be greater than 0",
          outcome |-> NoOutcome, rng |-> g, drawn |-> 0]
    ELSE
      LET offense == clamp(offensePtsDrive, MIN_POINTS_PER_DRIVE, MAX_POINTS_PER_DRIVE)
          defense == clamp(defensePtsDrive, MIN_POINTS_PER_DRIVE, MAX_POINTS_PER_DRIVE)
          d1 == Draw(g, p1)
          d2 == Draw(d1.rng, p2)
      IN  IF JsLt(d1.value, scoringProbability(offense, defense))
          THEN [threw |-> FALSE, message |-> "",
                outcome |-> scoringOutcome(d2.value),
                rng |-> d2.rng, drawn |-> 2]
          ELSE [threw |-> FALSE, message |-> "",
                outcome |-> [result |-> "NONE", points |-> 0],
                rng |-> d1.rng, drawn |-> 1]

----------------------------------------------------------------------------
(* Drive Engine: simulateGame *)

\* A drivesPerTeam whose default is 10.
drivesPerTeam_DefaultTen == Nullish(config.drivesPerTeam, 100)

\* const drivesPerTeam = config.drivesPerTeam ?? DEFAULT_DRIVES_PER_TEAM (tenths)
drivesPerTeam == Nullish(config.drivesPerTeam, DEFAULT_DRIVES_PER_TEAM * 10)

\* const allowTies = config.allowTies ?? true
Drive_allowTies ==
    IF config.allowTies = "undefined" THEN TRUE ELSE config.allowTies = "true"

\* An overtimeEnabled that looks at config.overtime only.
overtimeEnabled_IgnoresAllowTies ==
    IF config.overtime.present THEN config.overtime.enabled ELSE TRUE

\* const overtimeEnabled = !allowTies && (overtimeConfig?.enabled ?? true)
overtimeEnabled ==
    ~Drive_allowTies
    /\ (IF config.overtime.present THEN config.overtime.enabled ELSE TRUE)

\* A cap whose default is the 3 rounds of the form.
maxOvertimeRounds_DefaultThree ==
    Nullish(IF config.overtime.present THEN config.overtime.maxRounds ELSE Undefined,
            IF overtimeEnabled THEN 3 ELSE 0)

\* const maxOvertimeRounds = overtimeConfig?.maxRounds ?? (overtimeEnabled ? 6 : 0)
maxOvertimeRounds ==
    Nullish(IF config.overtime.present THEN config.overtime.maxRounds ELSE Undefined,
            IF overtimeEnabled THEN 6 ELSE 0)

\* The largest number of iterations of a loop the model follows: the code's
\* loops are unbounded when drivesPerTeam is Infinity, or when maxRounds is
\* not finite and the scores stay tied.
MaxLoop == 3

NoSummary == [homeTDs |-> 0, homeFGs |-> 0, awayTDs |-> 0, awayFGs |-> 0]
NoDetail == [expectedPoints |-> 0, variation |-> 0, turnoverPenalty |-> 0,
             rawProjection |-> 0, finalPoints |-> 0, overtimePoints |-> << >>]
NoResult == [homeScore |-> 0, awayScore |-> 0]

\* The state of the Projection Engine's locals, untouched by the Drive Engine.
ProjectionLocals == << homeDetail, awayDetail, overtimePointsHome,
                       overtimePointsAway, tiebreakApplied, zeros >>
\* The state of the Drive Engine's locals, untouched by the Projection Engine.
DriveLocals == << turn, i, homeDrives, awayDrives, summary >>
Arguments == << engine, home, away, config, callNo, firstResult, FormState >>

\* throw new Error(message): the call ends, nothing is returned.
Throw(message) ==
    /\ pc' = "failed"
    /\ error' = message
    /\ UNCHANGED result

\* Lines 350-370: the generator, the configuration, the empty accumulators.
Drive_Start ==
    /\ pc = "call" /\ engine = "drive"
    /\ rng' = NewGenerator(config.seed)
    /\ draws' = 0
    /\ homeDrives' = << >> /\ awayDrives' = << >>
    /\ homeScore' = 0 /\ awayScore' = 0
    /\ summary' = NoSummary
    /\ i' = 0 /\ roundsPlayed' = 0 /\ turn' = "home"
    /\ IF ~JsGt(drivesPerTeam, 0)
       THEN Throw("drivesPerTeam must be greater than 0")
       ELSE pc' = "regulation" /\ UNCHANGED << result, error >>
    /\ UNCHANGED << Arguments, ProjectionLocals >>

\* A recordOutcome whose away branch adds the points to the home score.
recordOutcome_HomeScoreOnly(team, outcome) ==
    IF team = "home"
    THEN /\ homeDrives' = Append(homeDrives, outcome)
         /\ homeScore' = homeScore + outcome.points
         /\ summary' = [summary EXCEPT
               !.homeTDs = @ + (IF outcome.result = "TD" THEN 1 ELSE 0),
               !.homeFGs = @ + (IF outcome.result = "FG" THEN 1 ELSE 0)]
         /\ UNCHANGED << awayDrives, awayScore >>
    ELSE /\ awayDrives' = Append(awayDrives, outcome)
         /\ homeScore' = homeScore + outcome.points
         /\ summary' = [summary EXCEPT
               !.awayTDs = @ + (IF outcome.result = "TD" THEN 1 ELSE 0),
               !.awayFGs = @ + (IF outcome.result = "FG" THEN 1 ELSE 0)]
         /\ UNCHANGED << homeDrives, awayScore >>

\* A recordOutcome that counts the away team's field goals as touchdowns.
recordOutcome_AwayFieldGoalAsTouchdown(team, outcome) ==
    IF team = "home"
    THEN /\ homeDrives' = Append(homeDrives, outcome)
         /\ homeScore' = homeScore + outcome.points
         /\ summary' = [summary EXCEPT
               !.homeTDs = @ + (IF outcome.result = "TD" THEN 1 ELSE 0),
               !.homeFGs = @ + (IF outcome.result = "FG" THEN 1 ELSE 0)]
         /\ UNCHANGED << awayDrives, awayScore >>
    ELSE /\ awayDrives' = Append(awayDrives, outcome)
         /\ awayScore' = awayScore + outcome.points
         /\ summary' = [summary EXCEPT
               !.awayTDs = @ + (IF outcome.result \in {"TD", "FG"} THEN 1 ELSE 0)]
         /\ UNCHANGED << homeDrives, homeScore >>

\* recordOutcome(team, outcome)
recordOutcome(team, outcome) ==
    IF team = "home"
    THEN /\ homeDrives' = Append(homeDrives, outcome)
         /\ homeScore' = homeScore + outcome.points
         /\ summary' = [summary EXCEPT
               !.homeTDs = @ + (IF outcome.result = "TD" THEN 1 ELSE 0),
               !.homeFGs = @ + (IF outcome.result = "FG" THEN 1 ELSE 0)]
         /\ UNCHANGED << awayDrives, awayScore >>
    ELSE /\ awayDrives' = Append(awayDrives, outcome)
         /\ awayScore' = awayScore + outcome.points
         /\ summary' = [summary EXCEPT
               !.awayTDs = @ + (IF outcome.result = "TD" THEN 1 ELSE 0),
               !.awayFGs = @ + (IF outcome.result = "FG" THEN 1 ELSE 0)]
         /\ UNCHANGED << homeDrives, homeScore >>

\* recordOutcome(team, simulateDrive(offense, defense, rng)): the drive is
\* simulated first; if it throws, nothing is recorded and the call ends.
PlayDrive(team, offense, defense) ==
    \E p1 \in Picks(rng), p2 \in Picks(rng) :
       LET d == simulateDrive(offense, defense, rng, p1, p2)
       IN  /\ rng' = d.rng
           /\ draws' = draws + d.drawn
           /\ IF d.threw
              THEN /\ Throw(d.message)
                   /\ UNCHANGED << homeDrives, awayDrives, homeScore,
                                   awayScore, summary, turn >>
              ELSE /\ recordOutcome(team, d.outcome)
                   /\ turn' = IF team = "home" THEN "away" ELSE "home"
                   /\ UNCHANGED << pc, result, error >>

\* for (let i = 0; i < drivesPerTeam; i += 1): the home drive of the round.
Drive_RegulationHome ==
    /\ pc = "regulation" /\ turn = "home"
    /\ i * 10 < drivesPerTeam
    /\ IsFinite(drivesPerTeam) \/ i < MaxLoop
    /\ PlayDrive("home", home.offPtsDrive, away.defPtsDrive)
    /\ UNCHANGED << Arguments, ProjectionLocals, i, roundsPlayed >>

\* The away drive of the round, then i += 1.
Drive_RegulationAway ==
    /\ pc = "regulation" /\ turn = "away"
    /\ PlayDrive("away", away.offPtsDrive, home.defPtsDrive)
    /\ i' = i + 1
    /\ UNCHANGED << Arguments, ProjectionLocals, roundsPlayed >>

\* The regulation loop ends; lines 391-393 set up the overtime loop.
Drive_RegulationEnd ==
    /\ pc = "regulation" /\ turn = "home"
    /\ ~(i * 10 < drivesPerTeam)
    /\ pc' = "overtime"
    /\ roundsPlayed' = 0
    /\ UNCHANGED << Arguments, ProjectionLocals, DriveLocals, rng, draws,
                    homeScore, awayScore, result, error >>

\* An overtime loop that goes on to the cap whatever the scores.
OvertimeContinues_UntilCap ==
    /\ overtimeEnabled
    /\ ~(IsFinite(maxOvertimeRounds) /\ roundsPlayed >= maxOvertimeRounds)

\* An overtime loop that breaks one round late (> for >=).
OvertimeContinues_OneTooMany ==
    /\ overtimeEnabled
    /\ JsEq(homeScore, awayScore)
    /\ ~(IsFinite(maxOvertimeRounds) /\ roundsPlayed > maxOvertimeRounds)

\* An overtime loop that goes on while home is not ahead (<= for ===).
OvertimeContinues_WhileNotAhead ==
    /\ overtimeEnabled
    /\ JsGe(awayScore, homeScore)
    /\ ~(IsFinite(maxOvertimeRounds) /\ roundsPlayed >= maxOvertimeRounds)

\* while (overtimeEnabled && homeScore === awayScore) { if (finite cap
\* reached) break; ... }
OvertimeContinues ==
    /\ overtimeEnabled
    /\ JsEq(homeScore, awayScore)
    /\ ~(IsFinite(maxOvertimeRounds) /\ roundsPlayed >= maxOvertimeRounds)

\* roundsPlayed += 1, then the home drive of the overtime round.
Drive_OvertimeHome ==
    /\ pc = "overtime" /\ turn = "home"
    /\ OvertimeContinues
    /\ IsFinite(maxOvertimeRounds) \/ roundsPlayed < MaxLoop
    /\ roundsPlayed' = roundsPlayed + 1
    /\ PlayDrive("home", home.offPtsDrive, away.defPtsDrive)
    /\ UNCHANGED << Arguments, ProjectionLocals, i >>

\* The away drive of the overtime round.
Drive_OvertimeAway ==
    /\ pc = "overtime" /\ turn = "away"
    /\ PlayDrive("away", away.offPtsDrive, home.defPtsDrive)
    /\ UNCHANGED << Arguments, ProjectionLocals, i, roundsPlayed >>

\* An overtime that ends as soon as the home drive of a round has put the
\* scores apart.
Drive_Return_SuddenDeath ==
    /\ pc = "overtime"
    /\ \/ turn = "home" /\ ~OvertimeContinues
       \/ turn = "away" /\ homeScore # awayScore
    /\ pc' = "done"
    /\ result' = [homeScore |-> homeScore, awayScore |-> awayScore,
                  homeDrives |-> homeDrives, awayDrives |-> awayDrives,
                  summary |-> summary]
    /\ UNCHANGED << Arguments, ProjectionLocals, DriveLocals, rng, draws,
                    homeScore, awayScore, roundsPlayed, error >>

\* return { homeScore, awayScore, homeDrives, awayDrives, summary }
Drive_Return ==
    /\ pc = "overtime" /\ turn = "home"
    /\ ~OvertimeContinues
    /\ pc' = "done"
    /\ result' = [homeScore |-> homeScore, awayScore |-> awayScore,
                  homeDrives |-> homeDrives, awayDrives |-> awayDrives,
                  summary |-> summary]
    /\ UNCHANGED << Arguments, ProjectionLocals, DriveLocals, rng, draws,
                    homeScore, awayScore, roundsPlayed, error >>

----------------------------------------------------------------------------
(* Projection Engine: randomGaussian, calculateTeamDetail, simulateOtPoints *)

TURNOVER_PENALTY_FACTOR == 2
DEFAULT_MAX_OT_ROUNDS == 3
DEFAULT_OT_SCALE == 250

\* Division that rounds toward zero, as a product of doubles scaled back to
\* thousandths.
Scaled(a, b) ==
    IF a = Huge THEN (IF b = 0 THEN 0 ELSE Huge)
    ELSE LET prod == a * b
         IN  IF prod >= 0 THEN prod \div 1000 ELSE -((-prod) \div 1000)

\* Math.round on thousandths, giving whole points: halves round up.
MathRound(x) ==
    IF x = NaN THEN NaN ELSE IF x = Huge THEN Huge ELSE (x + 500) \div 1000

\* Math.sqrt(-2.0 * Math.log(u)) in thousandths, for u a numerator over
\* DENOMINATOR: the value at the midpoint of the eighth u lies in.  The
\* logarithm of a negative number, and of NaN, is NaN.
Magnitude(u) ==
    IF ~IsNumber(u) \/ u < 0 THEN NaN
    ELSE << 2355, 1830, 1525, 1286, 1073, 866, 644, 359 >>[u \div 268435456 + 1]

\* Math.cos(2.0 * Math.PI * v) in thousandths: the value at the midpoint of
\* the eighth v lies in; the cosine of a tiny negative angle is 1.
Cosine(v) ==
    IF ~IsNumber(v) THEN NaN
    ELSE IF v < 0 THEN 1000
    ELSE << 924, 383, -383, -924, -924, -383, 383, 924 >>[v \div 268435456 + 1]

\* while (x === 0) { x = rng(); }  for one of u, v.  nz is how many times
\* Math.random returns exactly 0 before it returns pick; the recurrence of a
\* seeded generator returns 0 only from state 1, and never twice in a row.
DrawNonZero(g, nz, pick) ==
    IF g.kind = "Math.random"
    THEN [value |-> pick, rng |-> g, drawn |-> nz + 1]
    ELSE LET d1 == Draw(g, 0)
             d2 == Draw(d1.rng, 0)
         IN  IF JsEq(d1.value, 0)
             THEN [value |-> d2.value, rng |-> d2.rng, drawn |-> 2]
             ELSE [value |-> d1.value, rng |-> d1.rng, drawn |-> 1]

\* magnitude * Math.cos(angle), then mean + standard * Math.max(stdDev, 0).
GaussValue(magnitude, cosine, mean, stdDev) ==
    IF magnitude = NaN \/ cosine = NaN THEN NaN
    ELSE mean + Scaled(Scaled(magnitude, cosine), MathMax(stdDev, 0))

\* The value of randomGaussian from the two draws du (for u) and dv (for v).
GaussFrom(du, dv, mean, stdDev) ==
    [value |-> GaussValue(Magnitude(du.value), Cosine(dv.value), mean, stdDev),
     rng |-> dv.rng, drawn |-> du.drawn + dv.drawn]

\* A randomGaussian that takes v from the value it drew for u.
GaussAfter_SameDraw(du, mean, stdDev, e) ==
    GaussFrom(du, [du EXCEPT !.drawn = 0], mean, stdDev)

\* The draw of v, after the draw du of u.
GaussAfter(du, mean, stdDev, e) ==
    GaussFrom(du, DrawNonZero(du.rng, e.zv, e.v), mean, stdDev)

\* randomGaussian(rng, mean, stdDev); e is what Math.random returns:
\* e.zu zeros then e.u, e.zv zeros then e.v.
randomGaussian(g, mean, stdDev, e) ==
    GaussAfter(DrawNonZero(g, e.zu, e.u), mean, stdDev, e)

\* ensureNonNegative and ensurePositive: TRUE when the value is accepted.
ensureNonNegative(value) == IsFinite(value) /\ value >= 0
ensurePositive(value) == IsFinite(value) /\ value > 0

\* The five checks of calculateTeamDetail, in order: the message of the
\* first that fails, "" if none does.
TeamDetailError(team, opponent) ==
    IF ~ensureNonNegative(team.pointsPerGame)
      THEN "pointsPerGame debe ser un numero mayor o igual a 0."
    ELSE IF ~ensureNonNegative(team.pointsAllowedPerGame)
      THEN "pointsAllowedPerGame debe ser un numero mayor o igual a 0."
    ELSE IF ~ensurePositive(team.yardsPerPlay)
      THEN "yardsPerPlay debe ser un numero mayor que 0."
    ELSE IF ~ensureNonNegative(team.turnoverRate)
      THEN "turnoverRate debe ser un numero mayor o igual a 0."
    ELSE IF ~ensureNonNegative(opponent.pointsAllowedPerGame)
      THEN "pointsAllowedPerGame debe ser un numero mayor o igual a 0."
    ELSE ""

\* expected + variation - penalty
Projection(expected, variation, penalty) ==
    JsSub(JsAdd(expected, variation), penalty)

\* (team.pointsPerGame + opponent.pointsAllowedPerGame) / 2; Huge is
\* averaged with Huge only.
Expected(pointsPerGame, pointsAllowedPerGame) ==
    IF pointsPerGame = Huge /\ pointsAllowedPerGame = Huge THEN Huge
    ELSE (pointsPerGame + pointsAllowedPerGame) \div 2

\* Math.max(0, Math.round(projection))
Points(projection) == MathMax(0, MathRound(projection))

\* The record calculateTeamDetail returns.
TeamDetail(expected, variation, turnoverPenalty) ==
    [expectedPoints |-> expected,
     variation |-> variation,
     turnoverPenalty |-> turnoverPenalty,
     rawProjection |-> Projection(expected, variation, turnoverPenalty),
     finalPoints |-> Points(Projection(expected, variation, turnoverPenalty)),
     overtimePoints |-> << >>]

DetailFrom(team, opponent, gauss) ==
    [threw |-> FALSE, message |-> "",
     detail |-> TeamDetail(Expected(team.pointsPerGame, opponent.pointsAllowedPerGame),
                           gauss.value,
                           team.turnoverRate * TURNOVER_PENALTY_FACTOR),
     rng |-> gauss.rng, drawn |-> gauss.drawn]

\* calculateTeamDetail(team, opponent, rng)
calculateTeamDetail(team, opponent, g, e) ==
    IF TeamDetailError(team, opponent) # ""
    THEN [threw |-> TRUE, message |-> TeamDetailError(team, opponent),
          detail |-> NoDetail, rng |-> g, drawn |-> 0]
    ELSE DetailFrom(team, opponent,
                    randomGaussian(g, 0, MathMax(100, team.yardsPerPlay \div 2), e))

\* The three checks of simulateOtPoints.
OtPointsError(expectedReg, ypp, turnoverRate) ==
    IF ~ensureNonNegative(expectedReg)
      THEN "expectedReg debe ser un numero mayor o igual a 0."
    ELSE IF ~ensurePositive(ypp)
      THEN "ypp debe ser un numero mayor que 0."
    ELSE IF ~ensureNonNegative(turnoverRate)
      THEN "turnoverRate debe ser un numero mayor o igual a 0."
    ELSE ""

\* clamp(Number.isFinite(scale) ? scale : DEFAULT_OT_SCALE, 0, 1)
safeScale(scale) ==
    clamp(IF IsFinite(scale) THEN scale ELSE DEFAULT_OT_SCALE, 0, 1000)

\* clamp(expectedReg * safeScale, 0, 12)
expectedOT(expectedReg, scale) ==
    clamp(Scaled(expectedReg, safeScale(scale)), 0, 12000)

OtPointsFrom(expectedReg, turnoverRate, scale, gauss) ==
    [threw |-> FALSE, message |-> "",
     points |-> Points(Projection(expectedOT(expectedReg, scale), gauss.value,
                                  (turnoverRate * 8) \div 10)),
     rng |-> gauss.rng, drawn |-> gauss.drawn]

\* simulateOtPoints(expectedReg, ypp, turnoverRate, scale, rng)
simulateOtPoints(expectedReg, ypp, turnoverRate, scale, g, e) ==
    IF OtPointsError(expectedReg, ypp, turnoverRate) # ""
    THEN [threw |-> TRUE, message |-> OtPointsError(expectedReg, ypp, turnoverRate),
          points |-> 0, rng |-> g, drawn |-> 0]
    ELSE OtPointsFrom(expectedReg, turnoverRate, scale,
                      randomGaussian(g, 0, MathMax(100, ypp \div 4), e))

----------------------------------------------------------------------------
(* Projection Engine: simulateGame *)

\* const allowTies = config.allowTies ?? DEFAULT_ALLOW_TIES (false)
Proj_allowTies == config.allowTies = "true"

\* A maxOtRounds that rounds a fraction of a round up (Math.ceil for
\* Math.floor).
maxOtRounds_Ceiling ==
    IF IsFinite(config.maxOtRounds)
    THEN MathMax(0, (config.maxOtRounds + 9) \div 10)
    ELSE DEFAULT_MAX_OT_ROUNDS

\* Number.isFinite(config.maxOtRounds)
\*   ? Math.max(0, Math.floor(config.maxOtRounds)) : DEFAULT_MAX_OT_ROUNDS
\* (config.maxOtRounds is in tenths, the result in whole rounds)
maxOtRounds ==
    IF IsFinite(config.maxOtRounds)
    THEN MathMax(0, config.maxOtRounds \div 10)
    ELSE DEFAULT_MAX_OT_ROUNDS

\* const otScale = config.otScale ?? DEFAULT_OT_SCALE
otScale == Nullish(config.otScale, DEFAULT_OT_SCALE)

\* const tiebreakPolicy = config.tiebreakPolicy ?? DEFAULT_TIEBREAK_POLICY
tiebreakPolicy ==
    IF config.tiebreakPolicy = "undefined" THEN "expected"
    ELSE config.tiebreakPolicy

\* The most exact zeros Math.random returns in one call.
MaxZeros == 1

\* What Math.random may return to one randomGaussian: zu zeros then u, zv
\* zeros then v.
GaussPicks(g) ==
    IF g.kind = "Math.random"
    THEN { e \in [zu : 0..MaxZeros, u : RandomValues \ {0},
                  zv : 0..MaxZeros, v : RandomValues \ {0}] :
             zeros + e.zu + e.zv <= MaxZeros }
    ELSE { [zu |-> 0, u |-> 0, zv |-> 0, v |-> 0] }

\* Lines 155-162: the generator and the configuration.
Proj_Start ==
    /\ pc = "call" /\ engine = "projection"
    /\ rng' = NewGenerator(config.seed)
    /\ draws' = 0 /\ zeros' = 0
    /\ pc' = "homeDetail"
    /\ UNCHANGED << Arguments, DriveLocals, homeDetail, awayDetail,
                    overtimePointsHome, overtimePointsAway, tiebreakApplied,
                    homeScore, awayScore, roundsPlayed, result, error >>

\* const homeDetail = calculateTeamDetail(home, away, rng)
Proj_HomeDetail ==
    /\ pc = "homeDetail"
    /\ \E e \in GaussPicks(rng) :
         LET d == calculateTeamDetail(home, away, rng, e)
         IN  /\ rng' = d.rng
             /\ draws' = draws + d.drawn
             /\ zeros' = zeros + (IF d.threw THEN 0 ELSE e.zu + e.zv)
             /\ IF d.threw
                THEN Throw(d.message) /\ UNCHANGED homeDetail
                ELSE /\ homeDetail' = d.detail
                     /\ pc' = "awayDetail"
                     /\ UNCHANGED << result, error >>
    /\ UNCHANGED << Arguments, DriveLocals, awayDetail, overtimePointsHome,
                    overtimePointsAway, tiebreakApplied, homeScore,
                    awayScore, roundsPlayed >>

\* const awayDetail = calculateTeamDetail(away, home, rng); lines 167-173
\* start the scores from the regulation points.
Proj_AwayDetail ==
    /\ pc = "awayDetail"
    /\ \E e \in GaussPicks(rng) :
         LET d == calculateTeamDetail(away, home, rng, e)
         IN  /\ rng' = d.rng
             /\ draws' = draws + d.drawn
             /\ zeros' = zeros + (IF d.threw THEN 0 ELSE e.zu + e.zv)
             /\ IF d.threw
                THEN /\ Throw(d.message)
                     /\ UNCHANGED << awayDetail, homeScore, awayScore >>
                ELSE /\ awayDetail' = d.detail
                     /\ homeScore' = homeDetail.finalPoints
                     /\ awayScore' = d.detail.finalPoints
                     /\ pc' = "otRounds"
                     /\ UNCHANGED << result, error >>
    /\ overtimePointsHome' = << >> /\ overtimePointsAway' = << >>
    /\ roundsPlayed' = 0
    /\ tiebreakApplied' = "null"
    /\ UNCHANGED << Arguments, DriveLocals, homeDetail >>

\* A loop condition that allows one round more (<= for <).
OtRoundContinues_OneTooMany ==
    JsEq(homeScore, awayScore) /\ roundsPlayed <= maxOtRounds

\* while (homeScore === awayScore && roundsPlayed < maxOtRounds)
OtRoundContinues ==
    JsEq(homeScore, awayScore) /\ roundsPlayed < maxOtRounds

\* One iteration of the loop inside
\* if (!allowTies && homeScore === awayScore).
Proj_OvertimeRound ==
    /\ pc = "otRounds"
    /\ ~Proj_allowTies
    /\ OtRoundContinues
    /\ \E eh \in GaussPicks(rng) :
         LET h == simulateOtPoints(homeDetail.expectedPoints, home.yardsPerPlay,
                                   home.turnoverRate, otScale, rng, eh)
         IN  IF h.threw
             THEN /\ Throw(h.message)
                  /\ UNCHANGED << rng, draws, zeros, overtimePointsHome,
                                  overtimePointsAway, homeScore, awayScore,
                                  roundsPlayed >>
             ELSE \E ea \in { x \in GaussPicks(rng) :
                                zeros + eh.zu + eh.zv + x.zu + x.zv <= MaxZeros } :
                    LET a == simulateOtPoints(awayDetail.expectedPoints,
                                              away.yardsPerPlay, away.turnoverRate,
                                              otScale, h.rng, ea)
                    IN  /\ rng' = a.rng
                        /\ draws' = draws + h.drawn + a.drawn
                        /\ zeros' = zeros + eh.zu + eh.zv
                                      + (IF a.threw THEN 0 ELSE ea.zu + ea.zv)
                        /\ IF a.threw
                           THEN /\ Throw(a.message)
                                /\ UNCHANGED << overtimePointsHome,
                                                overtimePointsAway, homeScore,
                                                awayScore, roundsPlayed >>
                           ELSE /\ overtimePointsHome' = Append(overtimePointsHome, h.points)
                                /\ overtimePointsAway' = Append(overtimePointsAway, a.points)
                                /\ homeScore' = JsAdd(homeScore, h.points)
                                /\ awayScore' = JsAdd(awayScore, a.points)
                                /\ roundsPlayed' = roundsPlayed + 1
                                /\ UNCHANGED << pc, result, error >>
    /\ UNCHANGED << Arguments, DriveLocals, homeDetail, awayDetail,
                    tiebreakApplied >>

\* Lines 200-213: still tied after the loop.
Proj_Tiebreak ==
    /\ pc = "otRounds"
    /\ ~Proj_allowTies
    /\ JsEq(homeScore, awayScore) /\ ~OtRoundContinues
    /\ tiebreakApplied' = tiebreakPolicy
    /\ IF tiebreakPolicy = "expected"
       THEN IF JsGt(homeDetail.expectedPoints, awayDetail.expectedPoints)
            THEN homeScore' = JsAdd(homeScore, 1) /\ UNCHANGED awayScore
            ELSE IF JsGt(awayDetail.expectedPoints, homeDetail.expectedPoints)
            THEN awayScore' = JsAdd(awayScore, 1) /\ UNCHANGED homeScore
            ELSE homeScore' = JsAdd(homeScore, 1) /\ UNCHANGED awayScore
       ELSE homeScore' = JsAdd(homeScore, 1) /\ UNCHANGED awayScore
    /\ pc' = "return"
    /\ UNCHANGED << Arguments, DriveLocals, homeDetail, awayDetail,
                    overtimePointsHome, overtimePointsAway, zeros, rng, draws,
                    roundsPlayed, result, error >>

\* The overtime field of the result: lines 216-224.
NoOvertime == [present |-> FALSE, rounds |-> 0, homePoints |-> << >>,
               awayPoints |-> << >>, tiebreakApplied |-> "null"]

\* An overtime field that is there only when a round was played.
overtime_RoundsOnly ==
    IF roundsPlayed > 0
    THEN [present |-> TRUE, rounds |-> roundsPlayed,
          homePoints |-> overtimePointsHome,
          awayPoints |-> overtimePointsAway,
          tiebreakApplied |-> tiebreakApplied]
    ELSE NoOvertime

overtime ==
    IF roundsPlayed > 0 \/ tiebreakApplied # "null"
    THEN [present |-> TRUE, rounds |-> roundsPlayed,
          homePoints |-> overtimePointsHome,
          awayPoints |-> overtimePointsAway,
          tiebreakApplied |-> tiebreakApplied]
    ELSE NoOvertime

\* return { homeScore, awayScore, homeDetail, awayDetail, overtime }: the
\* block of line 175 was skipped, or left with the scores different, or left
\* after the tiebreak.
Proj_Return ==
    /\ \/ pc = "return"
       \/ pc = "otRounds" /\ (Proj_allowTies \/ ~JsEq(homeScore, awayScore))
    /\ pc' = "done"
    /\ result' = [homeScore |-> homeScore, awayScore |-> awayScore,
                  homeDetail |-> [homeDetail EXCEPT
                                    !.overtimePoints = overtimePointsHome],
                  awayDetail |-> [awayDetail EXCEPT
                                    !.overtimePoints = overtimePointsAway],
                  overtime |-> overtime]
    /\ UNCHANGED << Arguments, DriveLocals, ProjectionLocals, rng, draws,
                    homeScore, awayScore, roundsPlayed, error >>

----------------------------------------------------------------------------
(* The calls the model makes *)

\* The largest explicit drivesPerTeam (whole drives) a call is made with.
MaxDrives == 2

DriveTeam(off, def) == [offPtsDrive |-> off, defPtsDrive |-> def]

\* 2.5/2.2 are the form's defaults for the home team; 5.0/0.1 is clamped on
\* both sides.
ValidDriveTeams == { DriveTeam(25, 22), DriveTeam(50, 1) }

\* A team that fails validatePointsPerDrive, as home and as away, by its
\* offense (0, -1.0) and by its defense (NaN, -1.0).
InvalidDriveMatchups ==
    { << DriveTeam(0, 22), DriveTeam(25, 22) >>,
      << DriveTeam(25, 22), DriveTeam(0, 22) >>,
      << DriveTeam(25, NaN), DriveTeam(25, 22) >>,
      << DriveTeam(25, 22), DriveTeam(25, NaN) >>,
      << DriveTeam(-10, 22), DriveTeam(25, 22) >>,
      << DriveTeam(25, -10), DriveTeam(25, 22) >> }

\* Seeds of simulateGame: two ordinary ones, the one whose state is
\* normalised to 0, one non-finite, and the two that select Math.random.
Seeds == { Num(42), Num(7), Num(-2147483646), Special("Infinity"),
           Special("NaN"), Special("undefined") }

NoOvertimeConfig == [present |-> FALSE, enabled |-> FALSE, maxRounds |-> Undefined]

OvertimeConfigs ==
    { NoOvertimeConfig }
    \cup [present : {TRUE}, enabled : {FALSE}, maxRounds : {Undefined, 1}]
    \cup [present : {TRUE}, enabled : {TRUE},
          maxRounds : {Undefined, 0, 1, Infinity}]

DriveConfigs ==
    [drivesPerTeam : {Undefined, 0, -10, NaN, 25, Infinity}
                       \cup {10 * k : k \in 1..MaxDrives},
     allowTies : {"undefined", "true", "false"},
     overtime : OvertimeConfigs,
     seed : Seeds]

\* A call whose generator is Math.random is followed only for one
\* regulation round (or a rejected drivesPerTeam) and at most one overtime
\* round: every drive then has three outcomes.
Followed(c) ==
    c.seed.kind \in {"undefined", "NaN"} =>
        /\ c.drivesPerTeam \in {0, -10, NaN, 10}
        /\ c.overtime.present
        /\ ~c.overtime.enabled \/ c.overtime.maxRounds \in {0, 1}

\* The calls of the Drive Engine: the valid teams under every followed
\* configuration, the invalid ones under the default configuration and one
\* regulation round, for every seed.
DriveCalls ==
    { c \in [home : ValidDriveTeams, away : ValidDriveTeams, config : DriveConfigs] :
        Followed(c.config) }
    \cup { [home |-> m[1], away |-> m[2],
            config |-> [drivesPerTeam |-> d, allowTies |-> "undefined",
                        overtime |-> NoOvertimeConfig, seed |-> sd]] :
           m \in InvalidDriveMatchups, d \in {Undefined, 10}, sd \in Seeds }

ProjTeam(ppg, papg, ypp, to) ==
    [pointsPerGame |-> ppg, pointsAllowedPerGame |-> papg,
     yardsPerPlay |-> ypp, turnoverRate |-> to]

\* Two teams of low variance that tie in regulation (the second with the
\* higher expected points).
Even == ProjTeam(21000, 21000, 400, 0)
Strong == ProjTeam(23000, 21000, 400, 500)

\* A team whose points per game are beyond the exact integers of a double.
Big == ProjTeam(Huge, Huge, 400, 0)

\* The form's default teams and the low-variance ones.
ValidProjMatchups ==
    { << ProjTeam(24600, 20900, 5900, 1100), ProjTeam(22300, 21700, 5700, 1300) >>,
      << Even, Even >>, << Even, Strong >>, << Strong, Even >>,
      << Big, Big >> }

\* A team that fails a check of calculateTeamDetail: yardsPerPlay 0 as home
\* and as away, turnoverRate NaN as away, pointsAllowedPerGame -1 as away.
InvalidProjMatchups ==
    { << ProjTeam(21000, 21000, 0, 0), Even >>,
      << Even, ProjTeam(21000, 21000, 0, 0) >>,
      << Even, ProjTeam(21000, 21000, 400, NaN) >>,
      << Even, ProjTeam(21000, -1000, 400, 0) >> }

\* The seed whose first value is exactly 0: 16807 * 1407677000 is 1 modulo
\* 2147483647, so the first state is 1 and the first value (1 - 1) / 2147483646.
ZeroSeed == Num(1407677000)

ProjConfigs ==
    [seed : Seeds \cup {ZeroSeed},
     allowTies : {"undefined", "true", "false"},
     maxOtRounds : {Undefined, 0, 10, 27, -10, Infinity, NaN},
     otScale : {Undefined, 500, NaN},
     tiebreakPolicy : {"undefined", "expected", "home"}]

\* A call of the Projection Engine whose generator is Math.random is
\* followed for the two low-variance teams and at most one overtime round.
ProjFollowed(m, c) ==
    c.seed.kind \in {"undefined", "NaN"} =>
        /\ m \in { << Even, Even >>, << Even, Strong >> }
        /\ c.seed.kind = "undefined"
        /\ c.maxOtRounds \in {0, 10}
        /\ c.otScale = 500

ProjCalls ==
    { [home |-> m[1], away |-> m[2], config |-> c] :
        << m, c >> \in { x \in ValidProjMatchups \X ProjConfigs :
                           ProjFollowed(x[1], x[2]) } }
    \cup { [home |-> m[1], away |-> m[2],
            config |-> [seed |-> sd, allowTies |-> "undefined",
                        maxOtRounds |-> Undefined, otScale |-> Undefined,
                        tiebreakPolicy |-> "undefined"]] :
           m \in InvalidProjMatchups, sd \in Seeds }

----------------------------------------------------------------------------
(* The forms: NFLSimulator of the Drive Engine (NFLSimulator.tsx) and of the *)
(* Projection Engine (simulation.ts, lines 414-838)                          *)

\* null, of a state that holds an object.  The null of formError is "null".
Null == [kind |-> "null"]

\* Number.parseFloat of the texts typed into the fields, in thousandths; NaN
\* for a text that does not start with a number.
parseFloat(text) ==
    CASE text = "0" -> 0
      [] text = "0.25" -> 250
      [] text = "1.1" -> 1100
      [] text = "1.3" -> 1300
      [] text = "2" -> 2000
      [] text = "2.2" -> 2200
      [] text = "2.3" -> 2300
      [] text = "2.4" -> 2400
      [] text = "2.5" -> 2500
      [] text = "5.7" -> 5700
      [] text = "5.9" -> 5900
      [] text = "20.9" -> 20900
      [] text = "21.7" -> 21700
      [] text = "22.3" -> 22300
      [] text = "24.6" -> 24600
      [] OTHER -> NaN

\* Number.parseInt(text, 10): the whole number the text starts with.
parseInt(text) ==
    CASE text = "0" -> 0
      [] text = "1" -> 1
      [] text = "2.7" -> 2
      [] text = "3" -> 3
      [] text = "12" -> 12
      [] text = "42" -> 42
      [] text = "-1" -> -1
      [] OTHER -> NaN

Parsed(value) == [threw |-> FALSE, message |-> "", value |-> value]
Thrown(message) == [threw |-> TRUE, message |-> message, value |-> Null]

\* Drive form, parseTeamStats(inputs, label): the efficiencies in tenths.
Drive_parseTeamStats(inputs, label) ==
    IF parseFloat(inputs.offPtsDrive) = NaN
    THEN Thrown("Ingresa un numero valido para el promedio ofensivo (" \o label \o ").")
    ELSE IF parseFloat(inputs.defPtsDrive) = NaN
    THEN Thrown("Ingresa un numero valido para el promedio defensivo (" \o label \o ").")
    ELSE Parsed(DriveTeam(parseFloat(inputs.offPtsDrive) \div 100,
                          parseFloat(inputs.defPtsDrive) \div 100))

\* Drive form: maxRounds and seed are parsed only when their field is not
\* blank.
Drive_maxRounds == IF configInputs.maxRounds = "" THEN Undefined
                   ELSE parseInt(configInputs.maxRounds)
Drive_seedValue == IF configInputs.seed = "" THEN Special("undefined")
                   ELSE Num(parseInt(configInputs.seed))

\* Drive form, buildGameConfig(): what goes to simulateGame, with the
\* overtime setting only when ties are not allowed.
Drive_gameConfig ==
    [drivesPerTeam |-> 10 * parseInt(configInputs.drivesPerTeam),
     allowTies |-> IF configInputs.allowTies THEN "true" ELSE "false",
     overtime |-> IF configInputs.allowTies THEN NoOvertimeConfig
                  ELSE [present |-> TRUE,
                        enabled |-> configInputs.overtimeEnabled,
                        maxRounds |-> Drive_maxRounds],
     seed |-> Drive_seedValue]

Drive_buildGameConfig ==
    IF parseInt(configInputs.drivesPerTeam) = NaN
         \/ parseInt(configInputs.drivesPerTeam) <= 0
    THEN Thrown("Drives por equipo debe ser un entero positivo.")
    ELSE IF configInputs.maxRounds # ""
              /\ (parseInt(configInputs.maxRounds) = NaN
                    \/ parseInt(configInputs.maxRounds) <= 0)
    THEN Thrown("Rondas de OT debe ser un entero positivo.")
    ELSE IF configInputs.seed # "" /\ parseInt(configInputs.seed) = NaN
    THEN Thrown("La semilla debe ser un numero entero.")
    ELSE Parsed(Drive_gameConfig)

\* Drive form: the usedConfig of a call that returned.
Drive_usedConfig ==
    [drivesPerTeam |-> parseInt(configInputs.drivesPerTeam),
     allowTies |-> configInputs.allowTies,
     overtimeEnabled |-> ~configInputs.allowTies /\ configInputs.overtimeEnabled,
     maxRounds |-> Drive_maxRounds]

\* Projection form, parseNonNegativeNumber and parsePositiveNumber: TRUE when
\* the text is accepted.
parseNonNegativeNumber(text) == IsFinite(parseFloat(text)) /\ parseFloat(text) >= 0
parsePositiveNumber(text) == IsFinite(parseFloat(text)) /\ parseFloat(text) > 0

\* Projection form, parseTeamStats(inputs, label).
Proj_parseTeamStats(inputs, label) ==
    IF ~parseNonNegativeNumber(inputs.pointsPerGame)
    THEN Thrown(label \o ": puntos por juego debe ser un numero mayor o igual a 0.")
    ELSE IF ~parseNonNegativeNumber(inputs.pointsAllowedPerGame)
    THEN Thrown(label \o ": puntos permitidos por juego debe ser un numero mayor o igual a 0.")
    ELSE IF ~parsePositiveNumber(inputs.yardsPerPlay)
    THEN Thrown(label \o ": yardas por jugada debe ser un numero mayor que 0.")
    ELSE IF ~parseNonNegativeNumber(inputs.turnoverRate)
    THEN Thrown(label \o ": entregas por juego debe ser un numero mayor o igual a 0.")
    ELSE Parsed(ProjTeam(parseFloat(inputs.pointsPerGame),
                         parseFloat(inputs.pointsAllowedPerGame),
                         parseFloat(inputs.yardsPerPlay),
                         parseFloat(inputs.turnoverRate)))

\* Projection form, parseConfig(inputs): no seed; maxOtRounds in tenths.
Proj_parseConfig ==
    IF ~IsFinite(parseInt(configInputs.maxOtRounds))
         \/ parseInt(configInputs.maxOtRounds) < 0
    THEN Thrown("Las rondas maximas de OT deben ser un entero mayor o igual a 0.")
    ELSE IF ~IsFinite(parseFloat(configInputs.otScale))
              \/ parseFloat(configInputs.otScale) < 0
              \/ parseFloat(configInputs.otScale) > 1000
    THEN Thrown("La escala de OT debe estar entre 0 y 1.")
    ELSE Parsed([seed |-> Special("undefined"),
                 allowTies |-> IF configInputs.allowTies THEN "true" ELSE "false",
                 maxOtRounds |-> 10 * parseInt(configInputs.maxOtRounds),
                 otScale |-> parseFloat(configInputs.otScale),
                 tiebreakPolicy |-> configInputs.tiebreakPolicy])

\* The three parses of handleSimulate, in the order of the code.
ParsedHome == IF engine = "drive" THEN Drive_parseTeamStats(homeInputs, "Equipo local")
              ELSE Proj_parseTeamStats(homeInputs, "Equipo local")
ParsedAway == IF engine = "drive" THEN Drive_parseTeamStats(awayInputs, "Equipo visitante")
              ELSE Proj_parseTeamStats(awayInputs, "Equipo visitante")
ParsedConfig == IF engine = "drive" THEN Drive_buildGameConfig ELSE Proj_parseConfig

\* The message of the first parse that throws, "" when none does.
ParseError ==
    IF ParsedHome.threw THEN ParsedHome.message
    ELSE IF ParsedAway.threw THEN ParsedAway.message
    ELSE IF ParsedConfig.threw THEN ParsedConfig.message
    ELSE ""

\* The state of the form when the component is mounted.
FormInit ==
    /\ formResult = Null /\ formError = "null" /\ usedConfig = Null
    /\ IF engine = "drive"
       THEN /\ homeInputs = [offPtsDrive |-> "2.5", defPtsDrive |-> "2.2"]
            /\ awayInputs = [offPtsDrive |-> "2.3", defPtsDrive |-> "2.4"]
            /\ configInputs = [drivesPerTeam |-> "12", allowTies |-> TRUE,
                               overtimeEnabled |-> TRUE, maxRounds |-> "3",
                               seed |-> ""]
       ELSE /\ homeInputs = [pointsPerGame |-> "24.6", pointsAllowedPerGame |-> "20.9",
                             yardsPerPlay |-> "5.9", turnoverRate |-> "1.1"]
            /\ awayInputs = [pointsPerGame |-> "22.3", pointsAllowedPerGame |-> "21.7",
                             yardsPerPlay |-> "5.7", turnoverRate |-> "1.3"]
            /\ configInputs = [allowTies |-> FALSE, maxOtRounds |-> "3",
                               otScale |-> "0.25", tiebreakPolicy |-> "expected"]

\* What the user types into a team's field: the text it had at first, a 0
\* that the Drive Engine refuses, a text that does not parse.
TeamEdits ==
    IF engine = "drive"
    THEN [team : {"home"}, field : {"offPtsDrive"}, value : {"2.5", "0"}]
           \cup [team : {"away"}, field : {"defPtsDrive"}, value : {"2.4", ""}]
    ELSE [team : {"home"}, field : {"yardsPerPlay"}, value : {"5.9", "0"}]
           \cup [team : {"away"}, field : {"turnoverRate"}, value : {"1.3", ""}]

\* What the user types or selects in a field of the configuration.
ConfigEdits ==
    IF engine = "drive"
    THEN [field : {"drivesPerTeam"}, value : {"12", "1"}]
           \cup [field : {"maxRounds"}, value : {"3", "1"}]
           \cup [field : {"seed"}, value : {"", "42"}]
    ELSE [field : {"allowTies"}, value : BOOLEAN]
           \cup [field : {"maxOtRounds"}, value : {"3", "1", "-1"}]

EngineLocals == << pc, turn, rng, draws, zeros, i, homeDrives, awayDrives, summary,
                   homeScore, awayScore, roundsPlayed, homeDetail, awayDetail,
                   overtimePointsHome, overtimePointsAway, tiebreakApplied,
                   result, error >>

\* handleTeamInputChange(team, field, value): onChange of a field whose text
\* has changed.
handleTeamInputChange ==
    /\ pc = "form"
    /\ \E e \in TeamEdits :
         IF e.team = "home"
         THEN /\ homeInputs[e.field] # e.value
              /\ homeInputs' = [homeInputs EXCEPT ![e.field] = e.value]
              /\ UNCHANGED awayInputs
         ELSE /\ awayInputs[e.field] # e.value
              /\ awayInputs' = [awayInputs EXCEPT ![e.field] = e.value]
              /\ UNCHANGED homeInputs
    /\ formError' = "null"
    /\ UNCHANGED << engine, home, away, config, callNo, firstResult, EngineLocals,
                    configInputs, formResult, usedConfig >>

\* handleConfigNumericChange(field, value) of the Drive form and
\* handleConfigChange(field, value) of the Projection form.
handleConfigChange ==
    /\ pc = "form"
    /\ \E e \in ConfigEdits :
         /\ configInputs[e.field] # e.value
         /\ configInputs' = [configInputs EXCEPT ![e.field] = e.value]
    /\ formError' = "null"
    /\ UNCHANGED << engine, home, away, config, callNo, firstResult, EngineLocals,
                    homeInputs, awayInputs, formResult, usedConfig >>

\* Drive form, onChange of the "Permitir empates" checkbox.
Drive_allowTiesChange ==
    /\ pc = "form" /\ engine = "drive"
    /\ formError' = "null"
    /\ configInputs' = [configInputs EXCEPT
          !.allowTies = ~configInputs.allowTies,
          !.overtimeEnabled = IF ~configInputs.allowTies THEN FALSE
                              ELSE configInputs.overtimeEnabled \/ TRUE]
    /\ UNCHANGED << engine, home, away, config, callNo, firstResult, EngineLocals,
                    homeInputs, awayInputs, formResult, usedConfig >>

\* A catch that leaves the result of the simulation before on the page.
Catch_KeepsResult(message) ==
    /\ formError' = message
    /\ UNCHANGED << formResult, usedConfig >>

\* catch (err) { setResult(null); setUsedConfig(null); setError(message) }
Catch(message) ==
    /\ formResult' = Null
    /\ usedConfig' = Null
    /\ formError' = message

\* A click whose simulateGame draws from Math.random (no seed) is followed
\* for at most one overtime round and, in the Drive form, one regulation
\* round.
FormFollowed(c) ==
    c.seed.kind = "undefined" =>
        IF engine = "drive"
        THEN /\ c.drivesPerTeam = 10
             /\ c.allowTies = "true" \/ c.overtime.maxRounds = 1
        ELSE c.allowTies = "true" \/ c.maxOtRounds = 10

\* handleSimulate, up to the call of simulateGame: a parse that throws goes
\* to the catch.
handleSimulate_Parse ==
    /\ pc = "form"
    /\ IF ParseError # ""
       THEN /\ Catch(ParseError)
            /\ UNCHANGED << home, away, config, EngineLocals >>
       ELSE /\ FormFollowed(ParsedConfig.value)
            /\ home' = ParsedHome.value
            /\ away' = ParsedAway.value
            /\ config' = ParsedConfig.value
            /\ pc' = "call"
            /\ UNCHANGED << turn, rng, draws, zeros, i, homeDrives, awayDrives,
                            summary, homeScore, awayScore, roundsPlayed,
                            homeDetail, awayDetail, overtimePointsHome,
                            overtimePointsAway, tiebreakApplied, result, error,
                            formResult, formError, usedConfig >>
    /\ UNCHANGED << engine, callNo, firstResult, homeInputs, awayInputs,
                    configInputs >>

\* The locals of simulateGame are gone when handleSimulate ends.
CallEnds ==
    /\ pc' = "form"
    /\ home' = Null /\ away' = Null /\ config' = Null
    /\ turn' = "home"
    /\ rng' = [kind |-> "none", state |-> 0]
    /\ draws' = 0 /\ zeros' = 0
    /\ i' = 0
    /\ homeDrives' = << >> /\ awayDrives' = << >>
    /\ summary' = NoSummary
    /\ homeScore' = 0 /\ awayScore' = 0
    /\ roundsPlayed' = 0
    /\ homeDetail' = NoDetail /\ awayDetail' = NoDetail
    /\ overtimePointsHome' = << >> /\ overtimePointsAway' = << >>
    /\ tiebreakApplied' = "null"
    /\ result' = NoResult
    /\ error' = ""

\* handleSimulate after simulateGame has returned: setResult(simulation),
\* setUsedConfig(...) in the Drive form, setError(null).
handleSimulate_Return ==
    /\ pc = "done"
    /\ formResult' = result
    /\ usedConfig' = IF engine = "drive" THEN Drive_usedConfig ELSE Null
    /\ formError' = "null"
    /\ CallEnds
    /\ UNCHANGED << engine, callNo, firstResult, homeInputs, awayInputs,
                    configInputs >>

\* handleSimulate after simulateGame has thrown: the catch.
handleSimulate_Catch ==
    /\ pc = "failed"
    /\ Catch(error)
    /\ CallEnds
    /\ UNCHANGED << engine, callNo, firstResult, homeInputs, awayInputs,
                    configInputs >>

Idle ==
    /\ pc = "call"
    /\ turn = "home"
    /\ rng = [kind |-> "none", state |-> 0]
    /\ draws = 0 /\ zeros = 0
    /\ i = 0
    /\ homeDrives = << >> /\ awayDrives = << >>
    /\ summary = NoSummary
    /\ homeScore = 0 /\ awayScore = 0
    /\ roundsPlayed = 0
    /\ homeDetail = NoDetail /\ awayDetail = NoDetail
    /\ overtimePointsHome = << >> /\ overtimePointsAway = << >>
    /\ tiebreakApplied = "null"
    /\ result = NoResult
    /\ error = ""
    /\ FormInit

NoCall == [pc |-> "call", result |-> NoResult, error |-> ""]

InitDrive ==
    /\ engine = "drive"
    /\ \E c \in DriveCalls : home = c.home /\ away = c.away /\ config = c.config
    /\ callNo = 1 /\ firstResult = NoCall
    /\ Idle

InitProjection ==
    /\ engine = "projection"
    /\ \E c \in ProjCalls : home = c.home /\ away = c.away /\ config = c.config
    /\ callNo = 1 /\ firstResult = NoCall
    /\ Idle

Init == InitDrive \/ InitProjection

Next ==
    \/ Drive_Start
    \/ Drive_RegulationHome
    \/ Drive_RegulationAway
    \/ Drive_RegulationEnd
    \/ Drive_OvertimeHome
    \/ Drive_OvertimeAway
    \/ Drive_Return
    \/ Proj_Start
    \/ Proj_HomeDetail
    \/ Proj_AwayDetail
    \/ Proj_OvertimeRound
    \/ Proj_Tiebreak
    \/ Proj_Return

Spec == Init /\ [][Next]_vars

\* The form of either engine, mounted: the user edits fields and clicks
\* "simulate"; a click runs simulateGame to its end before the next event.
InitForm ==
    /\ engine \in {"drive", "projection"}
    /\ home = Null /\ away = Null /\ config = Null
    /\ callNo = 1 /\ firstResult = NoCall
    /\ pc = "form"
    /\ turn = "home"
    /\ rng = [kind |-> "none", state |-> 0]
    /\ draws = 0 /\ zeros = 0
    /\ i = 0
    /\ homeDrives = << >> /\ awayDrives = << >>
    /\ summary = NoSummary
    /\ homeScore = 0 /\ awayScore = 0
    /\ roundsPlayed = 0
    /\ homeDetail = NoDetail /\ awayDetail = NoDetail
    /\ overtimePointsHome = << >> /\ overtimePointsAway = << >>
    /\ tiebreakApplied = "null"
    /\ result = NoResult
    /\ error = ""
    /\ FormInit

NextForm ==
    \/ handleTeamInputChange
    \/ handleConfigChange
    \/ Drive_allowTiesChange
    \/ handleSimulate_Parse
    \/ handleSimulate_Return
    \/ handleSimulate_Catch
    \/ Next

SpecForm == InitForm /\ [][NextForm]_vars

\* The same call made a second time: same teams, same configuration, a fresh
\* generator from the same seed.  What the first call ended with is kept.
CallAgain ==
    /\ pc \in {"done", "failed"} /\ callNo = 1
    /\ callNo' = 2
    /\ firstResult' = [pc |-> pc, result |-> result, error |-> error]
    /\ pc' = "call"
    /\ turn' = "home"
    /\ rng' = [kind |-> "none", state |-> 0]
    /\ draws' = 0 /\ zeros' = 0
    /\ i' = 0
    /\ homeDrives' = << >> /\ awayDrives' = << >>
    /\ summary' = NoSummary
    /\ homeScore' = 0 /\ awayScore' = 0
    /\ roundsPlayed' = 0
    /\ homeDetail' = NoDetail /\ awayDetail' = NoDetail
    /\ overtimePointsHome' = << >> /\ overtimePointsAway' = << >>
    /\ tiebreakApplied' = "null"
    /\ result' = NoResult
    /\ error' = ""
    /\ UNCHANGED << engine, home, away, config, FormState >>

\* The calls made with a seed that is a number (typeof seed === "number"
\* and not NaN), each made twice.
InitSeeded == Init /\ config.seed.kind \in {"number", "Infinity", "-Infinity"}

NextTwice == Next \/ CallAgain

SpecTwice == InitSeeded /\ [][NextTwice]_vars

----------------------------------------------------------------------------
(* Properties *)

RECURSIVE SumSeq(_)
SumSeq(q) == IF q = << >> THEN 0 ELSE JsAdd(Head(q), SumSeq(Tail(q)))

RECURSIVE SumPoints(_)
SumPoints(drives) ==
    IF drives = << >> THEN 0 ELSE Head(drives).points + SumPoints(Tail(drives))

Returned == pc = "done"
Failed == pc = "failed"

\* C1: two calls of simulateGame with the same teams, configuration and
\* numeric seed end the same way: the same result (scores, drives or
\* details, overtime record), or the same error, in both engines.
C1_Deterministic ==
    (callNo = 2 /\ pc \in {"done", "failed"}) =>
        [pc |-> pc, result |-> result, error |-> error] = firstResult

\* The repetition of a Drive Engine call that went to overtime has returned.
C1_Witness ==
    /\ callNo = 2 /\ Returned /\ engine = "drive"
    /\ roundsPlayed > 0 /\ firstResult.result.homeScore > 0

\* C2: a call of the Projection Engine with allowTies false or absent that
\* returns, returns different scores (=== of JavaScript is false on them).
C2_NoTie ==
    (Returned /\ engine = "projection" /\ ~Proj_allowTies) =>
        ~JsEq(result.homeScore, result.awayScore)

\* C3: in the Drive Engine each score is the sum of the points of the
\* team's drives and is not negative, after every drive of regulation and
\* overtime and in the returned result.
C3_ScoreIsSumOfDrives ==
    engine = "drive" =>
        /\ homeScore = SumPoints(homeDrives) /\ homeScore >= 0
        /\ awayScore = SumPoints(awayDrives) /\ awayScore >= 0
        /\ Returned =>
             /\ result.homeScore = SumPoints(result.homeDrives)
             /\ result.awayScore = SumPoints(result.awayDrives)
             /\ result.homeScore >= 0 /\ result.awayScore >= 0

\* A returned game with overtime in which both teams scored.
C3_Witness ==
    /\ Returned /\ engine = "drive" /\ roundsPlayed > 0
    /\ result.homeScore > 0 /\ result.awayScore > 0
    /\ result.homeScore # result.awayScore

\* C4: in every result of the Drive Engine both teams have drivesPerTeam +
\* roundsPlayed drives, for every drivesPerTeam the engine accepts
\* (drivesPerTeam is in tenths).
C4_DriveCount ==
    (Returned /\ engine = "drive") =>
        /\ Len(result.homeDrives) = Len(result.awayDrives)
        /\ 10 * Len(result.homeDrives) = drivesPerTeam + 10 * roundsPlayed

\* The points of the tiebreak in a Projection Engine result.
HomeBonus ==
    JsSub(result.homeScore, JsAdd(result.homeDetail.finalPoints,
                                  SumSeq(result.homeDetail.overtimePoints)))
AwayBonus ==
    JsSub(result.awayScore, JsAdd(result.awayDetail.finalPoints,
                                  SumSeq(result.awayDetail.overtimePoints)))

\* C5: in every result of the Projection Engine each score is the team's
\* regulation points plus its overtime points plus the tiebreak point if it
\* got it, at most one team gets that point, and no score is negative.
C5_ScoreDecomposition ==
    (Returned /\ engine = "projection") =>
        /\ JsGe(result.homeScore, 0) /\ JsGe(result.awayScore, 0)
        /\ IsNumber(result.homeDetail.finalPoints)
        /\ IsNumber(result.awayDetail.finalPoints)
        /\ HomeBonus \in {0, 1} /\ AwayBonus \in {0, 1}
        /\ HomeBonus + AwayBonus <= 1
        /\ HomeBonus + AwayBonus = 1 <=> result.overtime.tiebreakApplied # "null"

\* C6: the result of the Projection Engine has an overtime field exactly
\* when a round was played or a tiebreak applied; with maxOtRounds 0 and a
\* regulation tie it is there with rounds 0 and no points; with allowTies
\* true or no regulation tie it is absent.
RegulationTie == JsEq(homeDetail.finalPoints, awayDetail.finalPoints)

C6_OvertimePresence ==
    (Returned /\ engine = "projection") =>
        /\ result.overtime.present <=>
              (roundsPlayed > 0 \/ tiebreakApplied # "null")
        /\ (~Proj_allowTies /\ RegulationTie /\ maxOtRounds = 0) =>
              /\ result.overtime.present
              /\ result.overtime.rounds = 0
              /\ result.overtime.homePoints = << >>
              /\ result.overtime.awayPoints = << >>
        /\ (Proj_allowTies \/ ~RegulationTie) => ~result.overtime.present

\* A regulation tie with maxOtRounds 0: the tiebreak alone decides.
C6_Witness ==
    /\ Returned /\ engine = "projection" /\ maxOtRounds = 0
    /\ result.overtime.present /\ result.overtime.rounds = 0

\* C7: the state of a generator seeded with a finite number stays in
\* 1..2147483646, so that every value (state - 1) / 2147483646 is in [0, 1).
C7_StateInRange ==
    (rng.kind = "seeded" /\ config.seed.kind = "number") =>
        rng.state \in 1..(MODULUS - 1)

\* C8: a seed that is not a finite number (absent, NaN, +Infinity,
\* -Infinity) selects Math.random.
C8_FallbackWhenNotFinite ==
    (rng.kind # "none" /\ config.seed.kind # "number") =>
        rng.kind = "Math.random"

\* C9: a call that fails has drawn nothing from the generator and has
\* accumulated no drive and no score.
C9_NoPartialResults ==
    Failed =>
        /\ draws = 0
        /\ homeDrives = << >> /\ awayDrives = << >>
        /\ homeScore = 0 /\ awayScore = 0

\* C10: every outcome simulateDrive returns has 7 points with TD, 3 with
\* FG, 0 with NONE, and nothing else.
OutcomeOk(o) ==
    \/ o.result = "TD" /\ o.points = 7
    \/ o.result = "FG" /\ o.points = 3
    \/ o.result = "NONE" /\ o.points = 0

C10_OutcomePoints ==
    engine = "drive" =>
        /\ \A k \in 1..Len(homeDrives) : OutcomeOk(homeDrives[k])
        /\ \A k \in 1..Len(awayDrives) : OutcomeOk(awayDrives[k])

\* A game in which the three outcomes all occurred.
C10_Witness ==
    /\ engine = "drive"
    /\ \E k \in 1..Len(homeDrives) : homeDrives[k].result = "TD"
    /\ \E k \in 1..Len(homeDrives) : homeDrives[k].result = "FG"
    /\ \E k \in 1..Len(awayDrives) : awayDrives[k].result = "NONE"

\* The iterations of  for (let i = 0; i < drivesPerTeam; i += 1)  for a
\* finite drivesPerTeam above 0 (in tenths): the least integer not below it.
RegulationDrives == (drivesPerTeam + 9) \div 10

\* C11: in the Drive Engine with allowTies true or absent no overtime drive
\* is ever played, whatever config.overtime says; a returned result has the
\* regulation drives only, also when the scores are equal.
C11_NoOvertimeWhenTiesAllowed ==
    (engine = "drive" /\ Drive_allowTies) =>
        /\ roundsPlayed = 0
        /\ ~(pc = "overtime" /\ turn = "away")
        /\ Returned =>
             /\ Len(result.homeDrives) = RegulationDrives
             /\ Len(result.awayDrives) = RegulationDrives
             /\ result.homeScore = SumPoints(SubSeq(homeDrives, 1, RegulationDrives))
             /\ result.awayScore = SumPoints(SubSeq(awayDrives, 1, RegulationDrives))

\* A tie is returned although config.overtime enables overtime without a cap.
C11_Witness ==
    /\ Returned /\ engine = "drive" /\ config.allowTies = "true"
    /\ config.overtime.present /\ config.overtime.enabled
    /\ config.overtime.maxRounds = Infinity
    /\ result.homeScore = result.awayScore /\ result.homeScore > 0

\* The four efficiencies pass validatePointsPerDrive.
DriveTeamsValid ==
    /\ validatePointsPerDrive(home.offPtsDrive)
    /\ validatePointsPerDrive(home.defPtsDrive)
    /\ validatePointsPerDrive(away.offPtsDrive)
    /\ validatePointsPerDrive(away.defPtsDrive)

\* allowTies false with overtime disabled, or with a cap of 0 rounds.
OvertimeOff ==
    /\ engine = "drive" /\ config.allowTies = "false"
    /\ config.overtime.present
    /\ ~config.overtime.enabled \/ config.overtime.maxRounds = 0

\* C12: in the Drive Engine with allowTies false and overtime disabled, or
\* with overtime.maxRounds 0, no overtime round is played; the call returns
\* the regulation drives, tied or not, and a tie raises no error.
C12_NoOvertimeWhenDisabled ==
    OvertimeOff =>
        /\ roundsPlayed = 0
        /\ ~(pc = "overtime" /\ turn = "away")
        /\ Returned =>
             /\ Len(result.homeDrives) = RegulationDrives
             /\ Len(result.awayDrives) = RegulationDrives
        /\ (DriveTeamsValid /\ JsGt(drivesPerTeam, 0)) => ~Failed

\* A tie returned with overtime enabled and maxRounds 0.
C12_Witness ==
    /\ Returned /\ OvertimeOff
    /\ config.overtime.enabled /\ config.overtime.maxRounds = 0
    /\ result.homeScore = result.awayScore /\ result.homeScore > 0

\* The arguments of the drive simulateGame is about to simulate.
CurrentOffense == IF turn = "home" THEN home.offPtsDrive ELSE away.offPtsDrive
CurrentDefense == IF turn = "home" THEN away.defPtsDrive ELSE home.defPtsDrive

\* C13: simulateDrive called with an offense or a defense that is not above
\* 0 (0, negative, NaN) throws its validation error, and has drawn nothing
\* from the generator and recorded nothing when it does.
C13_DriveValidation ==
    [][(/\ engine = "drive" /\ pc \in {"regulation", "overtime"}
        /\ ~JsGt(CurrentOffense, 0) \/ ~JsGt(CurrentDefense, 0))
       => /\ pc' = "failed"
          /\ error' = IF ~JsGt(CurrentOffense, 0)
                      THEN "offensePtsDrive must be greater than 0"
                      ELSE "defensePtsDrive must be greater than 0"
          /\ draws' = draws /\ rng' = rng
          /\ homeDrives' = homeDrives /\ awayDrives' = awayDrives]_vars

\* The away drive was refused for the home team's NaN defense.
C13_Witness ==
    /\ Failed /\ engine = "drive" /\ home.defPtsDrive = NaN
    /\ error = "defensePtsDrive must be greater than 0"

\* C14: simulateGame of the Drive Engine throws its validation error when
\* drivesPerTeam (after the default) is not above 0 (0, negative, NaN),
\* before any drive is simulated; with drivesPerTeam absent each team plays
\* 12 regulation drives.
C14_DrivesPerTeamValidation ==
    engine = "drive" =>
        /\ (pc # "call" /\ ~JsGt(drivesPerTeam, 0)) =>
              /\ Failed
              /\ error = "drivesPerTeam must be greater than 0"
              /\ draws = 0
              /\ homeDrives = << >> /\ awayDrives = << >>
        /\ (config.drivesPerTeam = Undefined /\ pc = "overtime") => i = 12
        /\ (config.drivesPerTeam = Undefined /\ Returned) =>
              /\ Len(result.homeDrives) = 12 + roundsPlayed
              /\ Len(result.awayDrives) = 12 + roundsPlayed

\* The default 12 drives, then an overtime round, returned.
C14_Witness ==
    /\ Returned /\ engine = "drive" /\ config.drivesPerTeam = Undefined
    /\ roundsPlayed > 0 /\ Len(result.homeDrives) = 12 + roundsPlayed

Ended == pc \in {"done", "failed"}

\* A seeded generator whose state the recurrence maps to itself (0, NaN):
\* every value it returns is the same.
StreamConstant == rng.kind = "seeded" /\ NextState(rng.state) = rng.state

\* C15: every call of simulateGame ends, whatever the inputs.  For that, a
\* loop that nothing but its bound ends must have a finite bound: the
\* regulation loop of the Drive Engine with valid teams (it ends by
\* i < drivesPerTeam failing or by a throw), and its overtime loop when every
\* round repeats the last (it ends by the scores differing or by the cap).
C15_LoopsEnd ==
    engine = "drive" =>
        /\ (pc = "regulation" /\ turn = "home" /\ DriveTeamsValid)
              => IsFinite(drivesPerTeam)
        /\ (/\ pc = "overtime" /\ turn = "home" /\ DriveTeamsValid
            /\ OvertimeContinues /\ StreamConstant)
              => IsFinite(maxOvertimeRounds)

\* C16: in the Drive Engine an overtime round starts only with overtime
\* enabled, the scores equal and, for a finite maxRounds, roundsPlayed below
\* it; the call returns with the scores different or the cap reached (with
\* no round at all when overtime is not enabled); and once the scores differ
\* at the head of the loop no round follows.
C16_OvertimeLoop ==
    [][engine = "drive" =>
        /\ (pc = "overtime" /\ roundsPlayed' # roundsPlayed) =>
              /\ roundsPlayed' = roundsPlayed + 1
              /\ overtimeEnabled
              /\ homeScore = awayScore
              /\ IsFinite(maxOvertimeRounds) => roundsPlayed < maxOvertimeRounds
        /\ (pc' = "done" /\ overtimeEnabled) =>
              \/ homeScore' # awayScore'
              \/ IsFinite(maxOvertimeRounds) /\ roundsPlayed' >= maxOvertimeRounds
        /\ (pc' = "done" /\ ~overtimeEnabled) => roundsPlayed' = 0
        /\ (pc = "overtime" /\ turn = "home" /\ homeScore # awayScore) =>
              roundsPlayed' = roundsPlayed]_vars

\* An overtime under the default cap of 6 rounds that a round after the
\* first and before the sixth decided.
C16_Witness ==
    /\ Returned /\ engine = "drive" /\ overtimeEnabled
    /\ maxOvertimeRounds = 6
    /\ roundsPlayed \in 2..5 /\ result.homeScore # result.awayScore

\* C17: in the Projection Engine an overtime round is played only with
\* ties disallowed, a tied regulation and the scores still equal; a round
\* appends one value to each team's overtime points; and in the result
\* overtime.rounds is the length of both point lists and at most
\* maxOtRounds.
C17_OvertimeRounds ==
    [][engine = "projection" =>
        /\ (pc = "otRounds" /\ roundsPlayed' # roundsPlayed) =>
              /\ roundsPlayed' = roundsPlayed + 1
              /\ ~Proj_allowTies /\ RegulationTie
              /\ JsEq(homeScore, awayScore)
              /\ Len(overtimePointsHome') = Len(overtimePointsHome) + 1
              /\ Len(overtimePointsAway') = Len(overtimePointsAway) + 1
              /\ SubSeq(overtimePointsHome', 1, roundsPlayed) = overtimePointsHome
              /\ SubSeq(overtimePointsAway', 1, roundsPlayed) = overtimePointsAway
        /\ (pc = "otRounds" /\ roundsPlayed' = roundsPlayed) =>
              /\ overtimePointsHome' = overtimePointsHome
              /\ overtimePointsAway' = overtimePointsAway
        /\ pc' \in {"otRounds", "return", "done"} =>
              /\ Len(overtimePointsHome') = roundsPlayed'
              /\ Len(overtimePointsAway') = roundsPlayed'
              /\ roundsPlayed' <= maxOtRounds
        /\ pc' = "done" =>
              /\ result'.homeDetail.overtimePoints = overtimePointsHome'
              /\ result'.awayDetail.overtimePoints = overtimePointsAway'
              /\ result'.overtime.present =>
                    /\ result'.overtime.rounds = Len(result'.overtime.homePoints)
                    /\ result'.overtime.rounds = Len(result'.overtime.awayPoints)
                    /\ result'.overtime.rounds <= maxOtRounds
                    /\ result'.overtime.homePoints = overtimePointsHome'
                    /\ result'.overtime.awayPoints = overtimePointsAway'
              /\ ~result'.overtime.present => roundsPlayed' = 0]_vars

\* A tie that the second overtime round of at most three decided.
C17_Witness ==
    /\ Returned /\ engine = "projection"
    /\ result.overtime.present /\ result.overtime.rounds = 2
    /\ result.overtime.tiebreakApplied = "null"

\* The team the tiebreak favours: away only under policy "expected" with
\* strictly more expected points than home.
TiebreakGoesToAway ==
    /\ tiebreakPolicy = "expected"
    /\ JsGt(awayDetail.expectedPoints, homeDetail.expectedPoints)

\* C18: in the Projection Engine, when the scores are still equal after the
\* overtime loop, tiebreakApplied becomes the policy and exactly one point
\* is added to one score: under "expected" to the team with strictly more
\* expectedPoints, to home when they are equal; under "home" to home.  The
\* other score does not change.
C18_Tiebreak ==
    [][(engine = "projection" /\ pc = "otRounds") =>
        /\ (~Proj_allowTies /\ JsEq(homeScore, awayScore) /\ ~OtRoundContinues)
              => tiebreakApplied' = tiebreakPolicy
        /\ tiebreakApplied' # "null" =>
              /\ tiebreakApplied' = tiebreakPolicy
              /\ JsEq(homeScore, awayScore)
              /\ IF TiebreakGoesToAway
                 THEN awayScore' = awayScore + 1 /\ homeScore' = homeScore
                 ELSE homeScore' = homeScore + 1 /\ awayScore' = awayScore]_vars

RECURSIVE ScoringDrives(_)
ScoringDrives(drives) ==
    IF drives = << >> THEN 0
    ELSE (IF Head(drives).result \in {"TD", "FG"} THEN 1 ELSE 0)
           + ScoringDrives(Tail(drives))

\* C19: simulateDrive draws 1 value for a NONE and 2 for a TD or an FG, so
\* at every point of a Drive Engine game the values drawn are the drives
\* recorded plus the scoring drives among them.
C19_DrawCount ==
    (engine = "drive" /\ pc # "call") =>
        draws = Len(homeDrives) + Len(awayDrives)
                  + ScoringDrives(homeDrives) + ScoringDrives(awayDrives)

\* A returned game with drives of both kinds.
C19_Witness ==
    /\ Returned /\ engine = "drive"
    /\ ScoringDrives(homeDrives) > 0
    /\ ScoringDrives(awayDrives) < Len(awayDrives)
    /\ draws = Len(homeDrives) + Len(awayDrives)
                 + ScoringDrives(homeDrives) + ScoringDrives(awayDrives)

\* C20: in the Drive Engine a home drive is recorded only when both teams
\* have as many drives, an away drive only when home has one more, each with
\* draws later than those of the drive before; once the home drive of a
\* round is recorded the away drive is played, in regulation and in overtime
\* and whatever the score; a result has as many away as home drives.
C20_HomeThenAway ==
    [][engine = "drive" =>
        /\ homeDrives' # homeDrives =>
              /\ turn = "home"
              /\ Len(homeDrives) = Len(awayDrives)
              /\ SubSeq(homeDrives', 1, Len(homeDrives)) = homeDrives
              /\ Len(homeDrives') = Len(homeDrives) + 1
              /\ awayDrives' = awayDrives
              /\ draws' > draws
        /\ awayDrives' # awayDrives =>
              /\ turn = "away"
              /\ Len(homeDrives) = Len(awayDrives) + 1
              /\ SubSeq(awayDrives', 1, Len(awayDrives)) = awayDrives
              /\ Len(awayDrives') = Len(awayDrives) + 1
              /\ homeDrives' = homeDrives
              /\ draws' > draws
        /\ (pc \in {"regulation", "overtime"} /\ turn = "away") =>
              awayDrives' # awayDrives \/ pc' = "failed"
        /\ pc' = "done" => Len(homeDrives') = Len(awayDrives')]_vars

\* An overtime round whose home drive was a touchdown and whose away drive
\* was played all the same.
C20_Witness ==
    /\ Returned /\ engine = "drive" /\ roundsPlayed > 0
    /\ Len(homeDrives) = Len(awayDrives)
    /\ homeDrives[Len(homeDrives)].result = "TD"
    /\ awayDrives[Len(awayDrives)].result = "NONE"

\* The stream of a seeded generator, recomputed from the seed: the state
\* after n calls and the n-th value returned.
RECURSIVE StateAfter(_, _)
StateAfter(state, n) ==
    IF n = 0 THEN state ELSE StateAfter(NextState(state), n - 1)

ValueAt(n) ==
    IF StateAfter(SeedState(config.seed), n) = NaN THEN NaN
    ELSE StateAfter(SeedState(config.seed), n) - 1

\* The first position from n on whose value is not an exact 0.
RECURSIVE NonZeroFrom(_)
NonZeroFrom(n) == IF JsEq(ValueAt(n), 0) THEN NonZeroFrom(n + 1) ELSE n

\* The positions of the u and of the v of the n-th Gaussian sample of a
\* call, when the samples read the stream one after the other.
RECURSIVE PositionOfV(_)
PositionOfU(n) == NonZeroFrom((IF n = 1 THEN 0 ELSE PositionOfV(n - 1)) + 1)
PositionOfV(n) == NonZeroFrom(PositionOfU(n) + 1)

\* The n-th sample of the stream under the standard deviation stdDev.
SampleAt(n, stdDev) ==
    GaussValue(Magnitude(ValueAt(PositionOfU(n))),
               Cosine(ValueAt(PositionOfV(n))), 0, stdDev)

\* The Gaussian samples a Projection Engine call has taken so far: one per
\* detail computed, two per overtime round.
SamplesTaken ==
    CASE pc \in {"call", "homeDetail"} -> 0
      [] pc = "awayDetail" -> 1
      [] pc = "failed" -> (IF TeamDetailError(home, away) # "" THEN 0 ELSE 1)
      [] OTHER -> 2 + 2 * roundsPlayed

\* The points of an overtime round from the n-th sample.
OtPointsAt(n, detail, team) ==
    Points(Projection(expectedOT(detail.expectedPoints, otScale),
                      SampleAt(n, MathMax(100, team.yardsPerPlay \div 4)),
                      (team.turnoverRate * 8) \div 10))

\* C21: in the Projection Engine the home detail takes the first Gaussian
\* sample of the stream and the away detail the second; overtime round r
\* takes the next two, home's before away's; a sample reads two values of
\* the stream, and one more for each exact 0, which it skips.
C21_SampleOrder ==
    (engine = "projection" /\ pc # "call") =>
        /\ rng.kind = "Math.random" => draws = 2 * SamplesTaken + zeros
        /\ rng.kind = "seeded" =>
              /\ draws = (IF SamplesTaken = 0 THEN 0 ELSE PositionOfV(SamplesTaken))
              /\ (\A n \in 1..draws : ~JsEq(ValueAt(n), 0)) => draws = 2 * SamplesTaken
              /\ rng.state = StateAfter(SeedState(config.seed), draws)
              /\ SamplesTaken >= 1 =>
                    homeDetail.variation
                      = SampleAt(1, MathMax(100, home.yardsPerPlay \div 2))
              /\ SamplesTaken >= 2 =>
                    awayDetail.variation
                      = SampleAt(2, MathMax(100, away.yardsPerPlay \div 2))
              /\ \A r \in 1..Len(overtimePointsHome) :
                    /\ overtimePointsHome[r] = OtPointsAt(2 * r + 1, homeDetail, home)
                    /\ overtimePointsAway[r] = OtPointsAt(2 * r + 2, awayDetail, away)

\* A game with overtime from the stream whose first value is exactly 0: the
\* home detail read three values, every later sample two.
C21_Witness ==
    /\ engine = "projection" /\ Returned /\ config.seed = ZeroSeed
    /\ roundsPlayed >= 1 /\ draws = 5 + 4 * roundsPlayed

\* The initial state the claim gives a finite whole seed: seed mod
\* 2147483647, plus 2147483647 when that is not above 0.
StateOfSeed ==
    IF JsRem(config.seed.num, MODULUS) <= 0
    THEN JsRem(config.seed.num, MODULUS) + MODULUS
    ELSE JsRem(config.seed.num, MODULUS)

\* C22: the generator of a finite seed starts from (seed mod 2147483647),
\* plus 2147483647 when that is not above 0; after n calls its state is that
\* state multiplied n times by 16807 modulo 2147483647; and every state is
\* below 2^31, so that state * 16807 is below 2^46 (exact in a double).
C22_SeedAndStep ==
    (rng.kind = "seeded" /\ config.seed.kind = "number") =>
        /\ rng.state = StateAfter(StateOfSeed, draws)
        /\ rng.state >= 0 /\ rng.state < MODULUS

\* The cap on overtime rounds for config.maxOtRounds (in tenths): 3 when it
\* is absent or not finite, otherwise its whole part, 0 when it is negative.
RoundsAllowed ==
    IF config.maxOtRounds \in {Undefined, NaN, Infinity} THEN 3
    ELSE IF config.maxOtRounds < 0 THEN 0
    ELSE config.maxOtRounds \div 10

\* The points of overtime round r under the scale 0.25, for a seeded stream.
OtPointsQuarter(n, detail, team) ==
    Points(Projection(clamp(Scaled(detail.expectedPoints, 250), 0, 12000),
                      SampleAt(n, MathMax(100, team.yardsPerPlay \div 4)),
                      (team.turnoverRate * 8) \div 10))

\* C23: in the Projection Engine an absent allowTies acts as false (a tied
\* regulation is never returned as it is), an absent tiebreakPolicy as
\* "expected", an absent otScale as 0.25; the rounds played never exceed the
\* whole part of a finite maxOtRounds (0 for a negative one) or 3 for an
\* absent or non-finite one, and the tiebreak comes only after that many rounds.
C23_ConfigDefaults ==
    (engine = "projection" /\ pc \in {"otRounds", "return", "done"}) =>
        /\ roundsPlayed <= RoundsAllowed
        /\ tiebreakApplied # "null" => roundsPlayed = RoundsAllowed
        /\ (config.allowTies = "undefined" /\ RegulationTie /\ Returned) =>
              result.overtime.present
        /\ (config.tiebreakPolicy = "undefined" /\ tiebreakApplied # "null") =>
              /\ tiebreakApplied = "expected"
              /\ JsGt(awayDetail.expectedPoints, homeDetail.expectedPoints)
                    => homeScore = SumSeq(overtimePointsHome) + homeDetail.finalPoints
        /\ (config.otScale = Undefined /\ rng.kind = "seeded") =>
              \A r \in 1..Len(overtimePointsHome) :
                 /\ overtimePointsHome[r] = OtPointsQuarter(2 * r + 1, homeDetail, home)
                 /\ overtimePointsAway[r] = OtPointsQuarter(2 * r + 2, awayDetail, away)

\* Every setting absent: three rounds that all tied, then the tiebreak by
\* expected points for the away team.
C23_Witness ==
    /\ engine = "projection" /\ Returned
    /\ config.allowTies = "undefined" /\ config.maxOtRounds = Undefined
    /\ config.otScale = Undefined /\ config.tiebreakPolicy = "undefined"
    /\ roundsPlayed = 3 /\ tiebreakApplied = "expected"
    /\ result.awayScore = result.homeScore + 1

\* allowTies is false, and config.overtime is absent or has enabled true.
OvertimeAsked ==
    /\ config.allowTies = "false"
    /\ ~config.overtime.present \/ config.overtime.enabled

\* config.overtime is absent, or has no maxRounds.
MaxRoundsAbsent ==
    ~config.overtime.present \/ config.overtime.maxRounds = Undefined

\* C24: in the Drive Engine overtime rounds are played only when allowTies
\* is false and config.overtime.enabled is true or absent, and then a tie
\* is returned only with the cap reached; the cap is 6 when maxRounds is
\* absent and overtime is enabled, 0 when it is absent and overtime is not
\* enabled; so without an overtime config at most 6 rounds are played.
C24_OvertimeResolution ==
    (engine = "drive" /\ pc \in {"overtime", "done"}) =>
        /\ overtimeEnabled <=> OvertimeAsked
        /\ ~OvertimeAsked => roundsPlayed = 0
        /\ (OvertimeAsked /\ MaxRoundsAbsent) =>
              /\ maxOvertimeRounds = 6
              /\ roundsPlayed <= 6
              /\ (Returned /\ result.homeScore = result.awayScore)
                    => roundsPlayed = 6
        /\ (~OvertimeAsked /\ MaxRoundsAbsent) => maxOvertimeRounds = 0
        /\ (OvertimeAsked /\ ~MaxRoundsAbsent /\ Returned
            /\ result.homeScore = result.awayScore) =>
              roundsPlayed = config.overtime.maxRounds

\* allowTies false and no overtime config: six rounds that all tied.
C24_Witness ==
    /\ engine = "drive" /\ Returned
    /\ config.allowTies = "false" /\ ~config.overtime.present
    /\ roundsPlayed = 6 /\ Len(result.homeDrives) = Len(result.awayDrives)
    /\ result.homeScore = result.awayScore

\* A positive number of tenths brought into [0.2, 4.0].
Within(x) == IF x < 2 THEN 2 ELSE IF x > 40 THEN 40 ELSE x

\* Offense and defense (tenths) simulateDrive is compared on: 5.0 against
\* 2.0, the least probability (0.1 against 5.0), the greatest (10.0 against
\* 0.1), and the form's defaults.
DrivePairs == { << 50, 20 >>, << 1, 50 >>, << 100, 1 >>, << 25, 22 >> }

\* C25: simulateDrive gives, from every generator state, what it gives for
\* the offense and the defense brought into [0.2, 4.0] (5.0 against 2.0 as
\* 4.0 against 2.0); its scoring probability is between 0.02 and 0.85,
\* strictly inside (0, 1); and every drive a game records is the drive of
\* the clamped efficiencies.
C25_ClampedProbability ==
    [][(engine = "drive" /\ pc \in {"regulation", "overtime"}) =>
        /\ \A m \in DrivePairs, p1 \in Picks(rng), p2 \in Picks(rng) :
              /\ simulateDrive(m[1], m[2], rng, p1, p2)
                   = simulateDrive(Within(m[1]), Within(m[2]), rng, p1, p2)
              /\ scoringProbability(Within(m[1]), Within(m[2])) >= Threshold(1, 50)
              /\ scoringProbability(Within(m[1]), Within(m[2])) <= Threshold(17, 20)
              /\ Threshold(1, 50) > 0 /\ Threshold(17, 20) < DENOMINATOR
        /\ (homeDrives' # homeDrives \/ awayDrives' # awayDrives) =>
              \E p1 \in Picks(rng), p2 \in Picks(rng) :
                 /\ rng' = simulateDrive(Within(CurrentOffense), Within(CurrentDefense),
                                         rng, p1, p2).rng
                 /\ IF turn = "home"
                    THEN homeDrives' = Append(homeDrives,
                           simulateDrive(Within(CurrentOffense), Within(CurrentDefense),
                                         rng, p1, p2).outcome)
                    ELSE awayDrives' = Append(awayDrives,
                           simulateDrive(Within(CurrentOffense), Within(CurrentDefense),
                                         rng, p1, p2).outcome)]_vars

\* A game of an offense of 5.0 against a defense of 2.2 in which the home
\* drives ended in all three ways.
C25_Witness ==
    /\ engine = "drive" /\ Returned
    /\ home.offPtsDrive = 50 /\ away.defPtsDrive = 22
    /\ \E k \in 1..Len(homeDrives) : homeDrives[k].result = "TD"
    /\ \E k \in 1..Len(homeDrives) : homeDrives[k].result = "FG"
    /\ \E k \in 1..Len(homeDrives) : homeDrives[k].result = "NONE"

\* The drives of a list that ended in the given way.
RECURSIVE CountResult(_, _)
CountResult(drives, kind) ==
    IF drives = << >> THEN 0
    ELSE (IF Head(drives).result = kind THEN 1 ELSE 0)
           + CountResult(Tail(drives), kind)

\* C26: in every result of the Drive Engine the summary counts the TD and
\* the FG drives of each team's list, overtime drives included, and each
\* score is 7 times the team's TDs plus 3 times its FGs.
C26_SummaryConsistent ==
    (engine = "drive" /\ Returned) =>
        /\ result.summary.homeTDs = CountResult(result.homeDrives, "TD")
        /\ result.summary.homeFGs = CountResult(result.homeDrives, "FG")
        /\ result.summary.awayTDs = CountResult(result.awayDrives, "TD")
        /\ result.summary.awayFGs = CountResult(result.awayDrives, "FG")
        /\ result.homeScore = 7 * result.summary.homeTDs + 3 * result.summary.homeFGs
        /\ result.awayScore = 7 * result.summary.awayTDs + 3 * result.summary.awayFGs

\* A result with overtime in which both teams have touchdowns and field goals.
C26_Witness ==
    /\ engine = "drive" /\ Returned /\ roundsPlayed > 0
    /\ result.summary.homeTDs > 0 /\ result.summary.homeFGs > 0
    /\ result.summary.awayTDs > 0 /\ result.summary.awayFGs > 0
    /\ Len(result.homeDrives) > RegulationDrives

\* The difference of the scores after the first n drives of each team.
MarginAfter(n) ==
    SumPoints(SubSeq(homeDrives, 1, n)) - SumPoints(SubSeq(awayDrives, 1, n))

\* C27: in the Drive Engine, once an overtime round has been played, the
\* scores were equal after regulation and after every overtime round but
\* the last, and the scores differ by 0, 3, 4 or 7, at the head of the
\* overtime loop and in the returned result.
C27_OvertimeShape ==
    (/\ engine = "drive" /\ pc \in {"overtime", "done"} /\ turn = "home"
     /\ roundsPlayed > 0) =>
        /\ Len(homeDrives) = RegulationDrives + roundsPlayed
        /\ \A r \in 0..(roundsPlayed - 1) : MarginAfter(RegulationDrives + r) = 0
        /\ homeScore - awayScore \in {0, 3, 4, 7, -3, -4, -7}
        /\ Returned =>
              result.homeScore - result.awayScore \in {0, 3, 4, 7, -3, -4, -7}

\* An overtime that its second round or a later one decided by a touchdown,
\* after a regulation tied with points.
C27_Witness ==
    /\ engine = "drive" /\ Returned /\ roundsPlayed >= 2
    /\ result.homeScore - result.awayScore \in {7, -7}
    /\ MarginAfter(RegulationDrives) = 0
    /\ SumPoints(SubSeq(homeDrives, 1, RegulationDrives)) > 0

\* C28: a result of the Projection Engine records a tiebreak only if ties
\* are disallowed, exactly maxOtRounds overtime rounds were played and each
\* gave both teams the same points; the scores then differ by exactly 1; and
\* with allowTies true no tiebreak is recorded.
C28_TiebreakPreconditions ==
    (engine = "projection" /\ Returned) =>
        /\ Proj_allowTies => tiebreakApplied = "null" /\ ~result.overtime.present
        /\ result.overtime.tiebreakApplied # "null" =>
              /\ ~Proj_allowTies
              /\ result.overtime.rounds = maxOtRounds
              /\ \A r \in 1..result.overtime.rounds :
                    result.overtime.homePoints[r] = result.overtime.awayPoints[r]
              /\ JsSub(result.homeScore, result.awayScore) \in {1, -1}

\* const sumPoints = (points) => points.reduce((total, value) => total + value, 0)
sumPoints(points) == SumSeq(points)

\* renderTeamSummary: the "Marcador final" of a team's card,
\* detail.finalPoints + sumPoints(detail.overtimePoints).
finalWithOt(detail) == JsAdd(detail.finalPoints, sumPoints(detail.overtimePoints))

\* C29: for every result of the Projection Engine the final score on each
\* team's card (finalPoints plus the overtime points) is the score of that
\* team on the scoreboard.
C29_CardMatchesScoreboard ==
    (engine = "projection" /\ Returned) =>
        /\ finalWithOt(result.homeDetail) = result.homeScore
        /\ finalWithOt(result.awayDetail) = result.awayScore

\* The form shows a result, and the form shows an error.
HasResult == formResult # Null
HasError == formError # "null"

\* C30: in the form of either engine, whatever fields are edited and however
\* often "simulate" is clicked, result and error are never both set; when a
\* click has been handled exactly one of them is set; an edit of a field
\* clears the error and leaves the result as it was; and in the Drive form
\* the result is set exactly when usedConfig is.
C30_FormState ==
    /\ ~(HasResult /\ HasError)
    /\ [][/\ ~(HasResult' /\ HasError')
          /\ (\/ pc # "form" /\ pc' = "form"
              \/ /\ pc = "form" /\ pc' = "form"
                 /\ UNCHANGED << homeInputs, awayInputs, configInputs >>)
                => (HasResult' # HasError')
          /\ << homeInputs, awayInputs, configInputs >>'
                # << homeInputs, awayInputs, configInputs >>
                => /\ ~HasError'
                   /\ formResult' = formResult
                   /\ usedConfig' = usedConfig
          /\ engine = "drive" => (HasResult' <=> usedConfig' # Null)]_vars

\* The Drive form shows the result of a game of 12 drives, after the fields
\* were edited to texts that simulate would refuse.
C30_Witness ==
    /\ engine = "drive" /\ pc = "form"
    /\ HasResult /\ ~HasError
    /\ usedConfig # Null /\ usedConfig.drivesPerTeam = 12
    /\ Len(formResult.homeDrives) >= 12
    /\ configInputs.drivesPerTeam = "1" /\ homeInputs.offPtsDrive = "0"

====
